---- MODULE Spec2Model ----
(***************************************************************************)
(* A model of the EXA virtual machine of exapunks_lite: hosts with an      *)
(* occupancy limit, links between hosts, files, the file id generator,     *)
(* programs with their label table and cursor, and the agents (EXAs) that  *)
(* execute one instruction per cycle.                                      *)
(*                                                                         *)
(* Host, Link, File, IdGenerator, Generator, Program and the two helper    *)
(* methods of Exa are translated from the Rust source.  The body of        *)
(* Exa::execute_current_instruction is `unimplemented!()` in the source    *)
(* and the cycle driver is external to it: the per-instruction steps and   *)
(* the end-of-cycle step are modelled from the specification text and      *)
(* from the unit tests of src/exa/mod.rs.                                  *)
(***************************************************************************)
EXTENDS Integers, Sequences, FiniteSets, TLC

(***************************************************************************)
(* Bounds of the model.                                                    *)
(***************************************************************************)
\* Largest occupancy_limit given to a host.
MaxOccupancy == 3
\* The largest number of REPLs followed when agent ids alone are studied.
MaxReplications == 3
\* The largest number of values in a File when files alone are studied.
MaxContents == 3
\* The largest number of values in the queue of a HardwareRegister.
MaxQueue == 2

(***************************************************************************)
(* Program constants.                                                      *)
(***************************************************************************)
\* IdGenerator::new / IdGenerator::default: the first file id.
FirstFileId == 400
MaxFileId == 9999

VARIABLES
    hosts,          \* host id -> Host
    links,          \* link id -> Link
    exas,           \* agent id -> Exa (the live agents)
    id_generator,   \* the IdGenerator shared by every file Generator
    phase,          \* "setup" while the world is being built, then "run"
    stepped,        \* driver: ids of the agents already handled in this cycle
    dying,          \* driver: ids of the agents to remove when the cycle ends
    log,            \* history: what happened in this cycle, oldest first
    prev_dropped,   \* history: the DROPs that succeeded in the previous cycle
    replicated,     \* history: live agent id -> number of its successful REPLs
    subject         \* the one component the specifications of single components
                    \* (a File, a Program, a register, ...) work on; None in a
                    \* world, or the number of cycles the driver has completed in
                    \* the worlds that count them, or the order in which the
                    \* driver steps the agents in the world that fixes it

vars == <<hosts, links, exas, id_generator, phase, stepped, dying, log, prev_dropped,
          replicated, subject>>

(***************************************************************************)
(* Option<T>: None is the empty sequence, Some(v) a sequence of one.       *)
(***************************************************************************)
None == <<>>
Some(v) == <<v>>
IsSome(o) == o # <<>>
Unwrap(o) == o[1]

(***************************************************************************)
(* HashMap<String, T> as a function; insert and remove as in std.          *)
(***************************************************************************)
EmptyMap == <<>>
MapInsert(m, k, v) == [y \in (DOMAIN m) \cup {k} |-> IF y = k THEN v ELSE m[y]]
MapRemove(m, k) == [y \in (DOMAIN m) \ {k} |-> m[y]]
MapLen(m) == Cardinality(DOMAIN m)
\* HashMap::extend: the entries of `with` replace those of m with the same key.
MapExtend(m, with) ==
    [y \in (DOMAIN m) \cup (DOMAIN with) |-> IF y \in DOMAIN with THEN with[y] ELSE m[y]]

(***************************************************************************)
(* Value (src/value.rs).                                                   *)
(***************************************************************************)
Number(n) == [kind |-> "Number", n |-> n, s |-> ""]
Keyword(s) == [kind |-> "Keyword", n |-> 0, s |-> s]
RegisterId(s) == [kind |-> "RegisterId", n |-> 0, s |-> s]
LabelId(s) == [kind |-> "LabelId", n |-> 0, s |-> s]

\* impl Display for Value: a number prints in decimal, the others as they are.
ValueToString(v) == IF v.kind = "Number" THEN ToString(v.n) ELSE v.s

(***************************************************************************)
(* File (src/file/mod.rs).                                                 *)
(***************************************************************************)
FileNew(id) == [id |-> id, contents |-> <<>>, index |-> 0]

\* File::len and File::is_eof
FileLen(file) == Len(file.contents)
FileIsEof(file) == file.index = FileLen(file)

SaturatingAddSignedMutant(index, offset) == index + offset
\* usize::saturating_add_signed, for an index and offsets far from usize::MAX.
SaturatingAddSigned(index, offset) == IF index + offset < 0 THEN 0 ELSE index + offset

\* usize::min
Min(a, b) == IF a <= b THEN a ELSE b

FileAdjustIndexMutant(file, offset) ==
    [file EXCEPT !.index = SaturatingAddSigned(file.index, offset)]
\* File::adjust_index
FileAdjustIndex(file, offset) ==
    [file EXCEPT !.index = Min(FileLen(file), SaturatingAddSigned(file.index, offset))]

FileCurrentMutant(file) ==
    IF FileLen(file) > 0 THEN <<file.contents[1]>> ELSE <<>>
\* File::current: Vec::get(index) of the contents, for the 0-based index.
FileCurrent(file) ==
    IF file.index < FileLen(file) THEN Some(file.contents[file.index + 1]) ELSE None

\* File::append
FileAppend(file, with) == [file EXCEPT !.contents = Append(@, with)]

\* Vec::remove(index) and Vec::insert(index, value), for a 0-based index.
VecRemove(v, index) == SubSeq(v, 1, index) \o SubSeq(v, index + 2, Len(v))
VecInsert(v, index, value) == SubSeq(v, 1, index) \o <<value>> \o SubSeq(v, index + 1, Len(v))

FileRemoveCurrentMutant(file) ==
    IF FileLen(file) > 0
    THEN [file EXCEPT !.contents = SubSeq(@, 1, Len(@) - 1)]
    ELSE file
\* File::remove_current
FileRemoveCurrent(file) ==
    IF ~FileIsEof(file)
    THEN [file EXCEPT !.contents = VecRemove(@, file.index)]
    ELSE file

FileReplaceCurrentMutant(file, with) == [file EXCEPT !.contents = Append(@, with)]
\* File::replace_current
FileReplaceCurrent(file, with) ==
    IF FileIsEof(file) THEN FileAppend(file, with)
    ELSE [FileRemoveCurrent(file) EXCEPT !.contents = VecInsert(@, file.index, with)]

\* File::id: the id as a Value (a Keyword, as test_execute_current_instruction_file
\* expects of FILE).
FileIdMutant(file) == Keyword("")
FileId(file) == Keyword(file.id)

(***************************************************************************)
(* IdGenerator and Generator (src/file/id_generator.rs, generator.rs).     *)
(***************************************************************************)
\* The ids the setup tells the generator to avoid: the files placed by hand.
IdsToAvoid == {200}

SkipAvoidedMutant(next_id, ids_to_avoid) == next_id
RECURSIVE SkipAvoided(_, _)
\* while ids_to_avoid.contains(&next_id) { next_id += 1 }
SkipAvoided(next_id, ids_to_avoid) ==
    IF next_id \in ids_to_avoid THEN SkipAvoided(next_id + 1, ids_to_avoid) ELSE next_id

IdGeneratorNew(ids_to_avoid) ==
    [next_id |-> SkipAvoided(FirstFileId, ids_to_avoid), ids_to_avoid |-> ids_to_avoid]

\* Iterator::next: the call panics when next_id is above 9999; otherwise it returns
\* the id as a decimal string, and the generator moves past the ids to avoid.
IdGeneratorNext(g) ==
    [panicked |-> ~(g.next_id <= MaxFileId),
     id |-> ToString(g.next_id),
     generator |-> [g EXCEPT !.next_id = SkipAvoided(g.next_id + 1, g.ids_to_avoid)]]

\* Generator::generate: a new empty file with the next id (or the panic of next).
GeneratorGenerate(g) ==
    [panicked |-> IdGeneratorNext(g).panicked,
     file |-> FileNew(IdGeneratorNext(g).id),
     generator |-> IdGeneratorNext(g).generator]

(***************************************************************************)
(* Host (src/host/mod.rs) and Link (src/host/link.rs).                     *)
(***************************************************************************)
HostIds == {"host_1", "host_2"}
LinkIds == {"link"}

HostNew(id, occupancy_limit) ==
    [id |-> id,
     occupancy_limit |-> occupancy_limit,
     links |-> EmptyMap,
     pending_files |-> EmptyMap,
     files |-> EmptyMap,
     hardware_registers |-> EmptyMap,
     system_exas |-> EmptyMap,
     occupying_exa_ids |-> {}]

\* Link::new(lhs_id, lhs_host, rhs_id, rhs_host)
LinkNew(lhs_id, lhs_host, rhs_id, rhs_host) ==
    [lhs_id |-> lhs_id, lhs_host |-> lhs_host,
     rhs_id |-> rhs_id, rhs_host |-> rhs_host,
     occupied |-> FALSE]

\* Link::destination: the host behind the given gate id, if the link has that gate.
LinkDestination(link, gate_id) ==
    IF link.lhs_id = gate_id THEN Some(link.lhs_host)
    ELSE IF link.rhs_id = gate_id THEN Some(link.rhs_host)
    ELSE None

\* usize::saturating_sub
SaturatingSub(a, b) == IF a >= b THEN a - b ELSE 0

HasAvailableSpaceWithoutExasMutant(h) ==
    0 < SaturatingSub(SaturatingSub(SaturatingSub(SaturatingSub(
            h.occupancy_limit, MapLen(h.files)), MapLen(h.pending_files)),
            MapLen(h.hardware_registers)), MapLen(h.system_exas))
HasAvailableSpaceMutant(h) ==
    0 <= SaturatingSub(SaturatingSub(SaturatingSub(SaturatingSub(SaturatingSub(
            h.occupancy_limit, MapLen(h.files)), MapLen(h.pending_files)),
            MapLen(h.hardware_registers)), MapLen(h.system_exas)),
            Cardinality(h.occupying_exa_ids))
\* Host::has_available_space
HasAvailableSpace(h) ==
    0 < SaturatingSub(SaturatingSub(SaturatingSub(SaturatingSub(SaturatingSub(
            h.occupancy_limit, MapLen(h.files)), MapLen(h.pending_files)),
            MapLen(h.hardware_registers)), MapLen(h.system_exas)),
            Cardinality(h.occupying_exa_ids))

\* Host::insert_link
InsertLink(h, gate_id, link_id) == [h EXCEPT !.links = MapInsert(@, gate_id, link_id)]

\* Host::insert_file, past its assertion that there is room.
InsertFile(h, file) == [h EXCEPT !.files = MapInsert(@, file.id, file)]

InsertPendingFileAsFileMutant(h, file) ==
    IF HasAvailableSpace(h)
    THEN [ok |-> TRUE, host |-> [h EXCEPT !.files = MapInsert(@, file.id, file)],
          file |-> None]
    ELSE [ok |-> FALSE, host |-> h, file |-> Some(file)]
InsertPendingFileMutant(h, file) ==
    [ok |-> TRUE, host |-> [h EXCEPT !.pending_files = MapInsert(@, file.id, file)],
     file |-> None]
\* Host::insert_pending_file: Ok(()) and the host with the file pending, or
\* Err(NoRoomForFile(file)) and the host as it was.
InsertPendingFile(h, file) ==
    IF HasAvailableSpace(h)
    THEN [ok |-> TRUE, host |-> [h EXCEPT !.pending_files = MapInsert(@, file.id, file)],
          file |-> None]
    ELSE [ok |-> FALSE, host |-> h, file |-> Some(file)]

\* Host::insert_hardware_register, past its assertion that there is room.
InsertHardwareRegister(h, register) ==
    [h EXCEPT !.hardware_registers = MapInsert(@, register.id, register)]

\* Host::insert_system_exa, past its assertion that there is room.
InsertSystemExa(h, exa) == [h EXCEPT !.system_exas = MapInsert(@, exa.id, exa)]

\* Host::insert_exa_id, past its assertion that there is room.
InsertExaId(h, exa_id) == [h EXCEPT !.occupying_exa_ids = @ \cup {exa_id}]

RemoveFileMutant(h, file_id) ==
    IF file_id \in DOMAIN h.files
    THEN [file |-> Some(h.files[file_id]), host |-> h]
    ELSE [file |-> None, host |-> h]
\* Host::remove_file: files.remove(file_id), then the result is kept only when the
\* id is not a key of pending_files.  The entry leaves files in both cases.
RemoveFile(h, file_id) ==
    IF file_id \in DOMAIN h.files
    THEN [file |-> IF file_id \in DOMAIN h.pending_files
                   THEN None ELSE Some(h.files[file_id]),
          host |-> [h EXCEPT !.files = MapRemove(@, file_id)]]
    ELSE [file |-> None, host |-> h]

RemoveOccupyingExaIdMutant(h, exa_id) == [id |-> None, host |-> h]
\* Host::remove_occupying_exa_id
RemoveOccupyingExaId(h, exa_id) ==
    IF exa_id \in h.occupying_exa_ids
    THEN [id |-> Some(exa_id), host |-> [h EXCEPT !.occupying_exa_ids = @ \ {exa_id}]]
    ELSE [id |-> None, host |-> h]

UptakePendingFilesMutant(h) == [h EXCEPT !.pending_files = EmptyMap]
\* Host::uptake_pending_files
UptakePendingFiles(h) ==
    [h EXCEPT !.files = MapExtend(@, h.pending_files), !.pending_files = EmptyMap]

\* Host::has_file
HasFile(h, file_id) == file_id \in DOMAIN h.files \/ file_id \in DOMAIN h.pending_files

\* Host::has_link
HasLink(h, gate_id) == gate_id \in DOMAIN h.links

\* has_occupying_exa_id, as the tests of src/exa/mod.rs use it.
HasOccupyingExaId(h, exa_id) == exa_id \in h.occupying_exa_ids

\* The destination Host::link finds: the link must be free, must know the gate,
\* and the host behind it must have room.
HostLinkDestinationMutant(hs, ls, h, gate_id) ==
    LET link == ls[h.links[gate_id]]
        dest == LinkDestination(link, gate_id)
    IN  IF ~IsSome(dest) THEN None
        ELSE IF ~HasAvailableSpace(hs[Unwrap(dest)]) THEN None
        ELSE dest
HostLinkDestination(hs, ls, h, gate_id) ==
    LET link == ls[h.links[gate_id]]
        dest == LinkDestination(link, gate_id)
    IN  IF link.occupied THEN None
        ELSE IF ~IsSome(dest) THEN None
        ELSE IF ~HasAvailableSpace(hs[Unwrap(dest)]) THEN None
        ELSE dest

HostLinkMutant(hs, ls, h, gate_id) ==
    IF ~HasLink(h, gate_id)
    THEN [err |-> TRUE, destination |-> None, links |-> ls]
    ELSE [err |-> FALSE, destination |-> HostLinkDestination(hs, ls, h, gate_id),
          links |-> ls]
HostLinkMarksRefusedMutant(hs, ls, h, gate_id) ==
    IF ~HasLink(h, gate_id)
    THEN [err |-> TRUE, destination |-> None, links |-> ls]
    ELSE [err |-> FALSE, destination |-> HostLinkDestination(hs, ls, h, gate_id),
          links |-> [ls EXCEPT ![h.links[gate_id]].occupied = TRUE]]
\* Host::link: Err(LinkDoesNotExist) for an unknown gate; otherwise Ok(destination),
\* and the link is marked occupied exactly when a destination is returned.
HostLink(hs, ls, h, gate_id) ==
    IF ~HasLink(h, gate_id)
    THEN [err |-> TRUE, destination |-> None, links |-> ls]
    ELSE LET dest == HostLinkDestination(hs, ls, h, gate_id)
         IN  [err |-> FALSE,
              destination |-> dest,
              links |-> IF IsSome(dest)
                        THEN [ls EXCEPT ![h.links[gate_id]].occupied = TRUE]
                        ELSE ls]

(***************************************************************************)
(* BasicRegister (src/register/basic.rs): the cell is an Option<Value>.    *)
(***************************************************************************)
MinNumber == -9999
MaxNumber == 9999

BasicRegisterWriteMutant(cell, value) ==
    IF value.kind = "Number" /\ value.n < MinNumber
    THEN [ok |-> FALSE, error |-> "NumberValueTooSmall", cell |-> Some(value)]
    ELSE IF value.kind = "Number" /\ MaxNumber < value.n
    THEN [ok |-> FALSE, error |-> "NumberValueTooLarge", cell |-> Some(value)]
    ELSE IF value.kind = "LabelId"
    THEN [ok |-> FALSE, error |-> "WriteWithLabelId", cell |-> Some(value)]
    ELSE IF value.kind = "RegisterId"
    THEN [ok |-> FALSE, error |-> "WriteWithRegisterId", cell |-> Some(value)]
    ELSE [ok |-> TRUE, error |-> "", cell |-> Some(value)]
\* BasicRegister::write: the cell after the write, or the error and the cell as it was.
BasicRegisterWrite(cell, value) ==
    IF value.kind = "Number" /\ value.n < MinNumber
    THEN [ok |-> FALSE, error |-> "NumberValueTooSmall", cell |-> cell]
    ELSE IF value.kind = "Number" /\ MaxNumber < value.n
    THEN [ok |-> FALSE, error |-> "NumberValueTooLarge", cell |-> cell]
    ELSE IF value.kind = "LabelId"
    THEN [ok |-> FALSE, error |-> "WriteWithLabelId", cell |-> cell]
    ELSE IF value.kind = "RegisterId"
    THEN [ok |-> FALSE, error |-> "WriteWithRegisterId", cell |-> cell]
    ELSE [ok |-> TRUE, error |-> "", cell |-> Some(value)]

\* HardwareRegister::new
HardwareRegisterNew(id, mode) == [id |-> id, mode |-> mode, values |-> <<>>]

HardwareRegisterWriteAlwaysMutant(register, value) ==
    IF value.kind = "Number" /\ value.n < MinNumber
    THEN [ok |-> FALSE, error |-> "NumberValueTooSmall", register |-> register]
    ELSE IF value.kind = "Number" /\ MaxNumber < value.n
    THEN [ok |-> FALSE, error |-> "NumberValueTooLarge", register |-> register]
    ELSE IF value.kind = "LabelId"
    THEN [ok |-> FALSE, error |-> "WriteWithLabelId", register |-> register]
    ELSE IF value.kind = "RegisterId"
    THEN [ok |-> FALSE, error |-> "WriteWithRegisterId", register |-> register]
    ELSE [ok |-> TRUE, error |-> "",
          register |-> [register EXCEPT !.values = Append(@, value)]]
\* HardwareRegister::write: the value joins the back of the queue of a write-only
\* register; a read-only register takes the write and stays as it is; a value that
\* is rejected is reported and the register stays as it is.
HardwareRegisterWrite(register, value) ==
    IF value.kind = "Number" /\ value.n < MinNumber
    THEN [ok |-> FALSE, error |-> "NumberValueTooSmall", register |-> register]
    ELSE IF value.kind = "Number" /\ MaxNumber < value.n
    THEN [ok |-> FALSE, error |-> "NumberValueTooLarge", register |-> register]
    ELSE IF value.kind = "LabelId"
    THEN [ok |-> FALSE, error |-> "WriteWithLabelId", register |-> register]
    ELSE IF value.kind = "RegisterId"
    THEN [ok |-> FALSE, error |-> "WriteWithRegisterId", register |-> register]
    ELSE [ok |-> TRUE, error |-> "",
          register |-> IF register.mode = "WriteOnly"
                       THEN [register EXCEPT !.values = Append(@, value)]
                       ELSE register]

RECURSIVE WriteEach(_, _)
\* The loop of HardwareRegister::new_with_values: register.write(value)? for each.
WriteEach(register, values) ==
    IF values = <<>> THEN [ok |-> TRUE, register |-> register]
    ELSE LET w == HardwareRegisterWrite(register, Head(values))
         IN  IF w.ok THEN WriteEach(w.register, Tail(values))
             ELSE [ok |-> FALSE, register |-> w.register]

\* HardwareRegister::new_with_values: the values are written to a write-only
\* register, which gets the given mode afterwards.
HardwareRegisterNewWithValues(id, mode, values) ==
    LET written == WriteEach(HardwareRegisterNew(id, "WriteOnly"), values)
    IN  [ok |-> written.ok, register |-> [written.register EXCEPT !.mode = mode]]

\* HardwareRegister::read: the front of the queue, which stays where it is, or
\* Err(InvalidReadAccess) for a write-only register.
HardwareRegisterRead(register) ==
    IF register.mode = "WriteOnly"
    THEN [ok |-> FALSE, error |-> "InvalidReadAccess", value |-> None]
    ELSE [ok |-> TRUE, error |-> "",
          value |-> IF register.values = <<>> THEN None ELSE Some(Head(register.values))]

HardwareRegisterReadMutBackMutant(register) ==
    IF register.mode = "WriteOnly"
    THEN [ok |-> FALSE, error |-> "InvalidReadAccess", value |-> <<>>, register |-> register]
    ELSE IF register.values = <<>>
    THEN [ok |-> TRUE, error |-> "", value |-> <<>>, register |-> register]
    ELSE [ok |-> TRUE, error |-> "", value |-> <<register.values[Len(register.values)]>>,
          register |-> [register EXCEPT !.values = SubSeq(@, 1, Len(@) - 1)]]
HardwareRegisterReadMutPopsMutant(register) ==
    IF register.mode = "WriteOnly"
    THEN [ok |-> FALSE, error |-> "InvalidReadAccess", value |-> None,
          register |-> IF register.values = <<>> THEN register
                       ELSE [register EXCEPT !.values = Tail(@)]]
    ELSE IF register.values = <<>>
    THEN [ok |-> TRUE, error |-> "", value |-> None, register |-> register]
    ELSE [ok |-> TRUE, error |-> "", value |-> Some(Head(register.values)),
          register |-> [register EXCEPT !.values = Tail(@)]]
\* HardwareRegister::read_mut: the front of the queue, popped, or
\* Err(InvalidReadAccess) for a write-only register, which stays as it is.
HardwareRegisterReadMut(register) ==
    IF register.mode = "WriteOnly"
    THEN [ok |-> FALSE, error |-> "InvalidReadAccess", value |-> None,
          register |-> register]
    ELSE IF register.values = <<>>
    THEN [ok |-> TRUE, error |-> "", value |-> None, register |-> register]
    ELSE [ok |-> TRUE, error |-> "", value |-> Some(Head(register.values)),
          register |-> [register EXCEPT !.values = Tail(@)]]

(***************************************************************************)
(* The words of a source line (src/value.rs, src/program/instruction.rs).  *)
(* A word is the sequence of its characters.                               *)
(***************************************************************************)
Digits == {"0", "1", "2", "3", "4", "5", "6", "7", "8", "9"}

DigitValue(c) ==
    CASE c = "0" -> 0 [] c = "1" -> 1 [] c = "2" -> 2 [] c = "3" -> 3 [] c = "4" -> 4
      [] c = "5" -> 5 [] c = "6" -> 6 [] c = "7" -> 7 [] c = "8" -> 8 [] c = "9" -> 9

RECURSIVE DecimalOf(_, _)
\* The number a sequence of digits spells, after the digits read so far.
DecimalOf(digits, read) ==
    IF digits = <<>> THEN read
    ELSE DecimalOf(Tail(digits), read * 10 + DigitValue(Head(digits)))

\* str::parse::<isize>: an optional sign and at least one digit.  The words parsed
\* here are far shorter than the longest an isize can take.
ParseIsize(word) ==
    LET digits == IF word # <<>> /\ Head(word) \in {"+", "-"} THEN Tail(word) ELSE word
    IN  IF digits = <<>> \/ \E i \in 1..Len(digits) : digits[i] \notin Digits THEN None
        ELSE IF Head(word) = "-" THEN Some(0 - DecimalOf(digits, 0))
        ELSE Some(DecimalOf(digits, 0))

RECURSIVE Spelled(_)
\* The string of a word.
Spelled(word) == IF word = <<>> THEN "" ELSE Head(word) \o Spelled(Tail(word))

ValueFromStrChecksRangeMutant(word) ==
    IF word = <<>> THEN None
    ELSE IF IsSome(ParseIsize(word))
    THEN IF Unwrap(ParseIsize(word)) \in MinNumber..MaxNumber
         THEN Some(Number(Unwrap(ParseIsize(word))))
         ELSE None
    ELSE Some(Keyword(Spelled(word)))
\* Value::from_str: Err for the empty word, a Number for every word that parses as
\* an isize, a Keyword for any other word.
ValueFromStr(word) ==
    IF word = <<>> THEN None
    ELSE IF IsSome(ParseIsize(word)) THEN Some(Number(Unwrap(ParseIsize(word))))
    ELSE Some(Keyword(Spelled(word)))

\* Value::new_register_id: X, T, F, M, or `#` and four more characters.
NewRegisterId(word) ==
    IF \/ word # <<>> /\ Head(word) = "#" /\ Len(word) = 5
       \/ word \in {<<"X">>, <<"T">>, <<"F">>, <<"M">>}
    THEN Some(RegisterId(Spelled(word)))
    ELSE None

\* Value::new_number_or_register_id
NewNumberOrRegisterId(word) ==
    IF ~IsSome(ValueFromStr(word)) THEN None
    ELSE IF Unwrap(ValueFromStr(word)).kind = "Number" THEN ValueFromStr(word)
    ELSE NewRegisterId(word)

\* Instruction::parse_rn_r on the words of a line: the instruction of the opcode, or
\* the line marked as rejected with InvalidLineLength or InvalidValues.
ParseRnR(words) ==
    IF Len(words) # 3 THEN <<"!", "InvalidLineLength">>
    ELSE IF IsSome(NewNumberOrRegisterId(words[2])) /\ IsSome(NewRegisterId(words[3]))
    THEN <<Spelled(words[1]), Unwrap(NewNumberOrRegisterId(words[2])),
           Unwrap(NewRegisterId(words[3]))>>
    ELSE <<"!", "InvalidValues">>

(***************************************************************************)
(* Program (src/program/mod.rs).  A source line is given by what           *)
(* Instruction::from_str makes of it: <<opcode, operands...>>; <<"">> is   *)
(* an empty line and <<"#">> a comment line.                               *)
(***************************************************************************)
Sources ==
    [ replicate |->   \* test_execute_current_instruction_replicate, scenario S2
        << <<"COPY", Number(333), RegisterId("X")>>,
           <<"MAKE">>,
           <<"REPL", LabelId("LABEL")>>,
           <<"HALT">>,
           <<"MARK", LabelId("LABEL")>>,
           <<"MULI", Number(2), RegisterId("X"), RegisterId("X")>> >>,
      spawn |->       \* T set, then two REPLs of a child that halts at once
        << <<"COPY", Number(7), RegisterId("T")>>,
           <<"REPL", LabelId("L")>>,
           <<"#">>,
           <<"REPL", LabelId("L")>>,
           <<"HALT">>,
           <<"">>,
           <<"MARK", LabelId("L")>>,
           <<"HALT">> >>,
      link |->        \* scenario S3: through gate 800 and back
        << <<"LINK", Number(800)>>,
           <<"LINK", Number(-1)>> >>,
      back |->        \* the same link from the other side
        << <<"LINK", Number(-1)>>,
           <<"NOOP">> >>,
      drop |->        \* law L3 and scenario S4, agent A
        << <<"MAKE">>,
           <<"FILE", RegisterId("X")>>,
           <<"DROP">>,
           <<"GRAB", RegisterId("X")>>,
           <<"HALT">> >>,
      grab |->        \* scenario S4, agent B
        << <<"NOTE">>,
           <<"NOOP">>,
           <<"GRAB", Number(400)>>,
           <<"DROP">> >>,
      carry |->       \* test_execute_current_instruction_grab_success, then a
                      \* DROP in the other host
        << <<"GRAB", Number(200)>>,
           <<"LINK", Number(800)>>,
           <<"DROP">> >> ]

ProgramNames == DOMAIN Sources

\* Further sources, which no agent of the world runs.  <<"!", error>> is a line
\* Instruction::from_str rejects with that error.
OtherSources ==
    [ invalid |->     \* test_try_from_str_array_err
        << <<"!", "InvalidLineLength">>,
           <<"">>,
           <<"GRAB", Number(200)>>,
           <<"!", "InvalidValues">>,
           <<"">>,
           <<"">>,
           <<"JUMP", LabelId("THIS_LABEL")>> >>,
      missing |->     \* two uses of a label no MARK defines, one use of a defined one
        << <<"REPL", LabelId("L")>>,
           <<"MARK", LabelId("M")>>,
           <<"NOOP">>,
           <<"FJMP", LabelId("L")>>,
           <<"TJMP", LabelId("M")>> >>,
      unknown |->     \* one line that names no instruction
        << <<"NOOP">>,
           <<"!", "InvalidInstruction">> >>,
      forward |->     \* a label used before its MARK, which is the last line
        << <<"JUMP", LabelId("END")>>,
           <<"NOOP">>,
           <<"#">>,
           <<"MARK", LabelId("END")>> >>,
      jumps |->       \* marks next to each other, jumps in both directions
        << <<"MARK", LabelId("A")>>,
           <<"MARK", LabelId("B")>>,
           <<"NOTE">>,
           <<"FJMP", LabelId("C")>>,
           <<"">>,
           <<"TJMP", LabelId("A")>>,
           <<"MARK", LabelId("C")>>,
           <<"JUMP", LabelId("B")>>,
           <<"HALT">> >>,
      twice |->       \* a label two MARKs define: the later one replaces the earlier
        << <<"MARK", LabelId("A")>>,
           <<"COPY", Number(1), RegisterId("X")>>,
           <<"MARK", LabelId("A")>>,
           <<"REPL", LabelId("A")>>,
           <<"NOOP">>,
           <<"JUMP", LabelId("A")>> >>,
      ladder |->      \* a mark before every instruction and one behind the last
        << <<"MARK", LabelId("ONE")>>,
           <<"TEST", "EOF">>,
           <<"MARK", LabelId("TWO")>>,
           <<"TJMP", LabelId("FOUR")>>,
           <<"MARK", LabelId("THREE")>>,
           <<"JUMP", LabelId("ONE")>>,
           <<"MARK", LabelId("FOUR")>> >> ]

\* The sources an agent runs alone in its host.
AloneSources ==
    [ countdown |->   \* scenario S1
        << <<"COPY", Number(4), RegisterId("X")>>,
           <<"MARK", LabelId("L")>>,
           <<"SUBI", RegisterId("X"), Number(1), RegisterId("X")>>,
           <<"TEST", RegisterId("X"), "=", Number(0)>>,
           <<"FJMP", LabelId("L")>>,
           <<"HALT">> >>,
      test |->        \* test_execute_current_instruction_test
        << <<"ADDI", Number(333), RegisterId("X"), RegisterId("X")>>,
           <<"TEST", RegisterId("X"), "=", Number(333)>>,
           <<"TEST", RegisterId("X"), ">", Number(555)>>,
           <<"TEST", RegisterId("X"), "<", Number(555)>> >>,
      jump |->        \* test_execute_current_instruction_jump
        << <<"ADDI", Number(300), RegisterId("X"), RegisterId("X")>>,
           <<"JUMP", LabelId("LABEL")>>,
           <<"HALT">>,
           <<"MARK", LabelId("LABEL")>>,
           <<"MULI", Number(2), RegisterId("X"), RegisterId("X")>> >>,
      jump_if_true |->   \* test_execute_current_instruction_jump_if_true
        << <<"ADDI", Number(300), RegisterId("X"), RegisterId("X")>>,
           <<"TEST", RegisterId("X"), "=", Number(300)>>,
           <<"TJMP", LabelId("LABEL")>>,
           <<"HALT">>,
           <<"MARK", LabelId("LABEL")>>,
           <<"MULI", Number(2), RegisterId("X"), RegisterId("X")>> >>,
      jump_if_false |->  \* test_execute_current_instruction_jump_if_false
        << <<"ADDI", Number(300), RegisterId("X"), RegisterId("X")>>,
           <<"TEST", RegisterId("X"), "=", Number(300)>>,
           <<"FJMP", LabelId("LABEL")>>,
           <<"HALT">>,
           <<"MARK", LabelId("LABEL")>>,
           <<"MULI", Number(2), RegisterId("X"), RegisterId("X")>> >>,
      divide |->      \* boundary B2: a quotient, a remainder, then a divisor of 0
        << <<"COPY", Number(7), RegisterId("T")>>,
           <<"DIVI", Number(9), Number(2), RegisterId("X")>>,
           <<"MODI", Number(9), RegisterId("X"), RegisterId("X")>>,
           <<"SUBI", RegisterId("X"), Number(1), RegisterId("X")>>,
           <<"DIVI", RegisterId("T"), RegisterId("X"), RegisterId("T")>>,
           <<"HALT">> >>,
      modulo |->      \* the same for MODI
        << <<"COPY", Number(7), RegisterId("T")>>,
           <<"MODI", RegisterId("T"), RegisterId("X"), RegisterId("T")>>,
           <<"HALT">> >>,
      hardware |->    \* scenario S6: to the hardware register, then from it
        << <<"COPY", Number(5), RegisterId("X")>>,
           <<"COPY", Number(666), RegisterId("#NERV")>>,
           <<"COPY", RegisterId("#NERV"), RegisterId("X")>>,
           <<"COPY", RegisterId("X"), RegisterId("#NERV")>>,
           <<"HALT">> >>,
      hardware_large |->   \* a number no register accepts, to the hardware register
        << <<"COPY", Number(10000), RegisterId("#NERV")>>,
           <<"HALT">> >>,
      large |->       \* COPY 7 X; COPY 10000 X; HALT
        << <<"COPY", Number(7), RegisterId("X")>>,
           <<"COPY", Number(10000), RegisterId("X")>>,
           <<"HALT">> >>,
      small |->       \* COPY -9999 T; COPY -10000 T; HALT
        << <<"COPY", Number(-9999), RegisterId("T")>>,
           <<"COPY", Number(-10000), RegisterId("T")>>,
           <<"HALT">> >> ]

\* Scenario S5 for each arithmetic instruction: X holds a Keyword (the id of the
\* file the agent made), T holds 5.
KeywordSources ==
    [op \in {"ADDI", "SUBI", "MULI", "DIVI", "MODI"} |->
        << <<"MAKE">>,
           <<"FILE", RegisterId("X")>>,
           <<"COPY", Number(5), RegisterId("T")>>,
           <<op, Number(1), RegisterId("X"), RegisterId("T")>>,
           <<"HALT">> >>]

\* The sources of the agents that kill, halt or run out of instructions.
KillSources ==
    [ kill |->
        << <<"NOOP">>,
           <<"KILL">> >>,
      halt |->
        << <<"NOOP">>,
           <<"HALT">> >>,
      idle |->
        << <<"NOOP">> >> ]

\* The sources of the agents that talk over M, in Global mode or, after a MODE, in
\* Local mode.
BusSources ==
    [ send |->
        << <<"COPY", Number(5), RegisterId("M")>>,
           <<"COPY", Number(6), RegisterId("M")>> >>,
      send_local |->
        << <<"MODE">>,
           <<"COPY", Number(7), RegisterId("M")>> >>,
      receive |->
        << <<"COPY", RegisterId("M"), RegisterId("X")>>,
           <<"COPY", RegisterId("M"), RegisterId("T")>> >>,
      receive_local |->
        << <<"MODE">>,
           <<"COPY", RegisterId("M"), RegisterId("X")>> >>,
      echo |->
        << <<"COPY", RegisterId("M"), RegisterId("X")>>,
           <<"MODE">>,
           <<"COPY", RegisterId("X"), RegisterId("M")>> >> ]

\* Sources of an agent that reads, writes and voids through F: the file 200 of
\* test_execute_current_instruction_seek and _void_f, a file of its own, or none.
WindowSources ==
    [ read |->
        << <<"GRAB", Number(200)>>,
           <<"COPY", RegisterId("F"), RegisterId("X")>>,
           <<"COPY", RegisterId("F"), RegisterId("T")>>,
           <<"COPY", RegisterId("F"), RegisterId("X")>>,
           <<"COPY", RegisterId("F"), RegisterId("T")>> >>,
      seek_read |->   \* test_execute_current_instruction_seek
        << <<"GRAB", Number(200)>>,
           <<"SEEK", Number(2)>>,
           <<"COPY", RegisterId("F"), RegisterId("X")>> >>,
      write |->
        << <<"GRAB", Number(200)>>,
           <<"SEEK", Number(1)>>,
           <<"COPY", Number(7), RegisterId("F")>>,
           <<"COPY", RegisterId("X"), RegisterId("F")>>,
           <<"COPY", RegisterId("T"), RegisterId("F")>> >>,
      write_end |->
        << <<"GRAB", Number(200)>>,
           <<"SEEK", Number(9999)>>,
           <<"COPY", Number(7), RegisterId("F")>>,
           <<"TEST", "EOF">>,
           <<"SEEK", Number(-1)>>,
           <<"COPY", RegisterId("F"), RegisterId("X")>> >>,
      void |->        \* test_execute_current_instruction_void_f
        << <<"GRAB", Number(200)>>,
           <<"VOID", "F">>,
           <<"SEEK", Number(1)>>,
           <<"VOID", "F">>,
           <<"VOID", "F">>,
           <<"TEST", "EOF">>,
           <<"COPY", RegisterId("F"), RegisterId("X")>> >>,
      void_end |->
        << <<"GRAB", Number(200)>>,
           <<"SEEK", Number(9999)>>,
           <<"VOID", "F">>,
           <<"SEEK", Number(-1)>>,
           <<"VOID", "F">>,
           <<"TEST", "EOF">> >>,
      read_without_file |->
        << <<"COPY", RegisterId("F"), RegisterId("X")>> >>,
      write_without_file |->   \* test_execute_current_instruction_copy_failure_to_file
        << <<"COPY", RegisterId("X"), RegisterId("F")>> >>,
      eof_without_file |->
        << <<"TEST", "EOF">> >>,
      made |->
        << <<"MAKE">>,
           <<"COPY", Number(1), RegisterId("F")>>,
           <<"COPY", Number(2), RegisterId("F")>>,
           <<"SEEK", Number(-1)>>,
           <<"COPY", Number(3), RegisterId("F")>>,
           <<"TEST", "EOF">>,
           <<"SEEK", Number(-2)>>,
           <<"COPY", RegisterId("F"), RegisterId("T")>>,
           <<"TEST", "EOF">> >> ]

AllSources ==
    MapExtend(MapExtend(MapExtend(MapExtend(MapExtend(MapExtend(
        Sources, OtherSources), AloneSources), KeywordSources), KillSources), BusSources),
        WindowSources)

RECURSIVE ParseLinesByLineMutant(_, _, _, _)
ParseLinesByLineMutant(lines, i, instructions, marks) ==
    IF i > Len(lines) THEN [instructions |-> instructions, marks |-> marks]
    ELSE LET line == lines[i] IN
         IF line[1] \in {"", "#", "!"}
         THEN ParseLinesByLineMutant(lines, i + 1, instructions, marks)
         ELSE IF line[1] = "MARK"
         THEN ParseLinesByLineMutant(lines, i + 1, instructions,
                                     [y \in (DOMAIN marks) \cup {line[2].s} |->
                                         IF y = line[2].s THEN i - 1 ELSE marks[y]])
         ELSE ParseLinesByLineMutant(lines, i + 1, instructions \o << <<i - 1, line>> >>,
                                     marks)

RECURSIVE ParseLines(_, _, _, _)
\* The loop of Program::new from line i on: comment and empty lines are skipped, a
\* MARK records the number of instructions seen so far, any other instruction is
\* pushed with its 0-based line number.
ParseLines(lines, i, instructions, marks) ==
    IF i > Len(lines) THEN [instructions |-> instructions, marks |-> marks]
    ELSE LET line == lines[i] IN
         IF line[1] \in {"", "#", "!"}
         THEN ParseLines(lines, i + 1, instructions, marks)
         ELSE IF line[1] = "MARK"
         THEN ParseLines(lines, i + 1, instructions,
                         MapInsert(marks, line[2].s, Len(instructions)))
         ELSE ParseLines(lines, i + 1, Append(instructions, <<i - 1, line>>), marks)

MissingMarkLabelsMutant(lines, marks) ==
    {i \in 1..Len(lines) :
        /\ lines[i][1] \in {"JUMP", "TJMP", "FJMP", "REPL"}
        /\ \A j \in 1..(i - 1) : lines[j] # <<"MARK", lines[i][2]>>}
\* Program::parse_error: the uses of a label no MARK defines.
MissingMarkLabels(lines, marks) ==
    {i \in 1..Len(lines) :
        /\ lines[i][1] \in {"JUMP", "TJMP", "FJMP", "REPL"}
        /\ lines[i][2].s \notin DOMAIN marks}

\* Program::parse_error: the errors of the lines, in the order the map gives them.
LineParseErrors(lines, marks) ==
    {[kind |-> "MissingMarkLabel", line_number |-> i - 1, detail |-> lines[i][2].s] :
        i \in MissingMarkLabels(lines, marks)}
    \cup
    {[kind |-> "InvalidInstruction", line_number |-> i - 1, detail |-> lines[i][2]] :
        i \in {j \in 1..Len(lines) : lines[j][1] = "!"}}

RECURSIVE SortByLineNumber(_)
\* errors.sort_by_key(LineParseError::line_number)
SortByLineNumber(errors) ==
    IF errors = {} THEN <<>>
    ELSE LET first == CHOOSE e \in errors :
                         \A other \in errors : e.line_number <= other.line_number
         IN  <<first>> \o SortByLineNumber(errors \ {first})

\* Program::new: Ok with the instruction list and the label table of a source, or Err
\* with the errors of its lines.
ProgramNew(lines) ==
    LET parsed == ParseLines(lines, 1, <<>>, EmptyMap)
        errors == SortByLineNumber(LineParseErrors(lines, parsed.marks))
    IN  [ok |-> errors = <<>>,
         errors |-> errors,
         instructions |-> parsed.instructions,
         marks |-> parsed.marks]

Programs == [name \in DOMAIN AllSources |-> ProgramNew(AllSources[name])]

\* A Program value: its source and its cursor (stack_index, 0-based).
ProgramStart(name) == [name |-> name, stack_index |-> 0]
ProgramLen(p) == Len(Programs[p.name].instructions)

\* Program::peak_current_instruction
PeakCurrentInstruction(p) ==
    IF p.stack_index < ProgramLen(p)
    THEN Some(Programs[p.name].instructions[p.stack_index + 1])
    ELSE None

GetCurrentInstructionMutant(p) ==
    [instruction |-> PeakCurrentInstruction(p), program |-> p]
\* Program::get_current_instruction: the instruction, and the cursor moved by one
\* when there is one.
GetCurrentInstruction(p) ==
    [instruction |-> PeakCurrentInstruction(p),
     program |-> IF IsSome(PeakCurrentInstruction(p))
                 THEN [p EXCEPT !.stack_index = @ + 1]
                 ELSE p]

\* Program::jump_to panics for a value that is no LabelId and for a label that is not
\* in the marks of the program.
JumpToPanics(p, mark_label) ==
    \/ mark_label.kind # "LabelId"
    \/ mark_label.s \notin DOMAIN Programs[p.name].marks

JumpToMutant(p, mark_label) == [p EXCEPT !.stack_index = 0]
\* Program::jump_to, for a label of the program.
JumpTo(p, mark_label) == [p EXCEPT !.stack_index = Programs[p.name].marks[mark_label.s]]

(***************************************************************************)
(* Exa (src/exa/mod.rs).                                                   *)
(***************************************************************************)
\* Exa::new
ExaNew(id, program, host) ==
    [id |-> id,
     x_register |-> Some(Number(0)),
     t_register |-> Some(Number(0)),
     host |-> host,
     program |-> program,
     file |-> None,
     next_exa_id |-> 0,
     communication_mode |-> "Global",
     state |-> "Running"]

NextReplicatedExaIdMutant(exa) ==
    [id |-> exa.id \o ":" \o ToString(exa.next_exa_id), exa |-> exa]
\* Exa::next_replicated_exa_id: the id, and the agent with its counter raised.
NextReplicatedExaId(exa) ==
    [id |-> exa.id \o ":" \o ToString(exa.next_exa_id),
     exa |-> [exa EXCEPT !.next_exa_id = @ + 1]]

DropFileMutant(exa) == [file |-> exa.file, exa |-> exa]
\* Exa::drop_file: the held file, and the agent without it.
DropFile(exa) == [file |-> exa.file, exa |-> [exa EXCEPT !.file = None]]

(***************************************************************************)
(* The instruction steps of an agent.  Exa::execute_current_instruction    *)
(* has no body in the source; the steps follow the specification (§4) and  *)
(* the unit tests of src/exa/mod.rs, and call the Host, Program and Exa    *)
(* methods above.                                                          *)
(***************************************************************************)
\* One entry of the history of a cycle.
Entry(exa, host, op, result, arg, dest) ==
    [exa |-> exa, host |-> host, op |-> op, result |-> result, arg |-> arg, dest |-> dest,
     carried |-> <<>>]

\* The agent is live and the driver has not stepped it in this cycle.
Ready(e) == phase = "run" /\ e \in DOMAIN exas /\ e \notin stepped

\* The instruction under the cursor of a ready agent has the opcode op.
Fetched(e, op) ==
    /\ Ready(e)
    /\ IsSome(PeakCurrentInstruction(exas[e].program))
    /\ Unwrap(PeakCurrentInstruction(exas[e].program))[2][1] = op

\* The operands of the instruction under the cursor: <<opcode, operands...>>.
Instr(e) == Unwrap(PeakCurrentInstruction(exas[e].program))[2]

\* An operand that is a number or one of the registers X and T of the agent.
IsBasicOperand(v) == v.kind = "Number" \/ (v.kind = "RegisterId" /\ v.s \in {"X", "T"})

\* An operand that names a hardware register of the host: Value::new_register_id
\* makes a RegisterId of X, T, F, M and of `#` with four more characters only.
IsHardwareOperand(v) == v.kind = "RegisterId" /\ v.s \notin {"X", "T", "F", "M"}

\* An `rn` source: a number is itself, X and T are read from the agent.
EvalSource(exa, v) ==
    IF v.kind = "Number" THEN Some(v)
    ELSE IF v.s = "X" THEN exa.x_register
    ELSE IF v.s = "T" THEN exa.t_register
    ELSE None

\* A write to the destination register X or T of the agent.
WriteDestination(exa, dest, value) ==
    IF dest.s = "X"
    THEN LET w == BasicRegisterWrite(exa.x_register, value)
         IN  [ok |-> w.ok, exa |-> [exa EXCEPT !.x_register = w.cell]]
    ELSE LET w == BasicRegisterWrite(exa.t_register, value)
         IN  [ok |-> w.ok, exa |-> [exa EXCEPT !.t_register = w.cell]]

AdvanceKeepsStateMutant(exa) ==
    [exa EXCEPT !.program = [@ EXCEPT !.stack_index =
                                IF @ < Len(Programs[exa.program.name].instructions)
                                THEN @ + 1 ELSE @]]
\* Outcome Advanced: the cursor moves past the instruction, the state is Running.
Advance(exa) ==
    [exa EXCEPT !.program = GetCurrentInstruction(@).program, !.state = "Running"]

BlockAdvancesMutant(exa, waiting) ==
    [exa EXCEPT !.state = waiting, !.program.stack_index = @ + 1]
\* Outcome Blocked: the cursor stays, the state is the given Waiting variant.
Block(exa, waiting) == [exa EXCEPT !.state = waiting]

\* The driver removes a dead agent: its slot is released and its held file goes to
\* the pending set of its host if there is room (§7), else it is destroyed.
DriverRemove(hs, exa) ==
    LET released == RemoveOccupyingExaId(hs[exa.host], exa.id).host
        held == DropFile(exa).file
    IN  [hs EXCEPT ![exa.host] =
            IF IsSome(held) THEN InsertPendingFile(released, Unwrap(held)).host
            ELSE released]

\* What a step leaves behind.
Commit(e, hs, ls, xs, gen, born, entry) ==
    /\ hosts' = hs
    /\ links' = ls
    /\ exas' = xs
    /\ id_generator' = gen
    /\ stepped' = stepped \cup {e} \cup born
    /\ log' = Append(log, entry)
    /\ replicated' = [x \in DOMAIN xs |->
                        IF x \in born THEN 0
                        ELSE IF x = e /\ born # {} THEN replicated[x] + 1
                        ELSE replicated[x]]
    /\ UNCHANGED <<phase, dying, prev_dropped, subject>>

\* The step ends with the agent as `exa`.
Continue(e, hs, ls, exa, gen, entry) ==
    Commit(e, hs, ls, [exas EXCEPT ![e] = exa], gen, {}, entry)

\* The step ends with the death of the agent in this cycle; `carried` is what the
\* error holds besides its kind.
DieWith(e, op, reason, carried) ==
    Commit(e, DriverRemove(hosts, exas[e]), links, MapRemove(exas, e), id_generator, {},
           [Entry(e, exas[e].host, op, "died", reason, "") EXCEPT !.carried = carried])

\* The step ends with the death of the agent in this cycle.
DieNow(e, op, reason) == DieWith(e, op, reason, <<>>)

\* The cursor is past the last instruction: OutOfInstructions, death in the next cycle.
ExecuteOutOfInstructions(e) ==
    /\ Ready(e)
    /\ ~IsSome(PeakCurrentInstruction(exas[e].program))
    /\ hosts' = hosts /\ links' = links /\ exas' = exas /\ id_generator' = id_generator
    /\ stepped' = stepped \cup {e}
    /\ dying' = dying \cup {e}
    /\ log' = Append(log, Entry(e, exas[e].host, "", "died", "OutOfInstructions", ""))
    /\ UNCHANGED <<phase, prev_dropped, replicated, subject>>

\* NOOP and NOTE
ExecuteNoOp(e) ==
    /\ (Fetched(e, "NOOP") \/ Fetched(e, "NOTE"))
    /\ Continue(e, hosts, links, Advance(exas[e]), id_generator,
                Entry(e, exas[e].host, Instr(e)[1], "advanced", "", ""))

\* COPY rn r, between numbers and the registers X and T
ExecuteCopy(e) ==
    /\ Fetched(e, "COPY")
    /\ IsBasicOperand(Instr(e)[2])
    /\ IsBasicOperand(Instr(e)[3])
    /\ LET exa == exas[e]
           value == EvalSource(exa, Instr(e)[2])
           w == WriteDestination(exa, Instr(e)[3], Unwrap(value))
       IN  IF IsSome(value) /\ w.ok
           THEN Continue(e, hosts, links, Advance(w.exa), id_generator,
                         Entry(e, exa.host, "COPY", "advanced", "", ""))
           ELSE DieNow(e, "COPY", "BadValue")

\* MULI rn rn r
ExecuteMultiply(e) ==
    /\ Fetched(e, "MULI")
    /\ LET exa == exas[e]
           a == EvalSource(exa, Instr(e)[2])
           b == EvalSource(exa, Instr(e)[3])
       IN  IF ~IsSome(a) \/ ~IsSome(b) THEN DieNow(e, "MULI", "BadValue")
           ELSE IF Unwrap(a).kind # "Number" \/ Unwrap(b).kind # "Number"
           THEN DieWith(e, "MULI", "MathWithKeywords", <<Unwrap(a), Unwrap(b)>>)
           ELSE LET w == WriteDestination(exa, Instr(e)[4],
                                          Number(Unwrap(a).n * Unwrap(b).n))
                IN  IF w.ok
                    THEN Continue(e, hosts, links, Advance(w.exa), id_generator,
                                  Entry(e, exa.host, "MULI", "advanced", "", ""))
                    ELSE DieNow(e, "MULI", "BadValue")

\* HALT: the agent leaves its host and dies in this cycle.
ExecuteHalt(e) ==
    /\ Fetched(e, "HALT")
    /\ DieNow(e, "HALT", "Halt")

\* MAKE: a new empty file from the generator, unless the agent holds one already.
ExecuteMake(e) ==
    /\ Fetched(e, "MAKE")
    /\ LET exa == exas[e]
           made == GeneratorGenerate(id_generator)
       IN  IF IsSome(exa.file) THEN DieNow(e, "MAKE", "AlreadyHoldingFile")
           ELSE Continue(e, hosts, links, Advance([exa EXCEPT !.file = Some(made.file)]),
                         made.generator,
                         Entry(e, exa.host, "MAKE", "advanced", made.file.id, ""))

\* FILE r: the id of the held file, as a Keyword, to the destination.
ExecuteFile(e) ==
    /\ Fetched(e, "FILE")
    /\ LET exa == exas[e]
       IN  IF ~IsSome(exa.file) THEN DieNow(e, "FILE", "InvalidFRegisterAccess")
           ELSE LET w == WriteDestination(exa, Instr(e)[2], FileId(Unwrap(exa.file)))
                IN  IF w.ok
                    THEN Continue(e, hosts, links, Advance(w.exa), id_generator,
                                  Entry(e, exa.host, "FILE", "advanced",
                                        Unwrap(exa.file).id, ""))
                    ELSE DieNow(e, "FILE", "BadValue")

\* GRAB rn: take the file from the host; wait for a pending one; die for an unknown one.
ExecuteGrab(e) ==
    /\ Fetched(e, "GRAB")
    /\ ~IsSome(exas[e].file)
    /\ IsSome(EvalSource(exas[e], Instr(e)[2]))
    /\ LET exa == exas[e]
           file_id == ValueToString(Unwrap(EvalSource(exa, Instr(e)[2])))
           removed == RemoveFile(hosts[exa.host], file_id)
           hs == [hosts EXCEPT ![exa.host] = removed.host]
       IN  IF IsSome(removed.file)
           THEN Continue(e, hs, links, Advance([exa EXCEPT !.file = removed.file]),
                         id_generator,
                         Entry(e, exa.host, "GRAB", "advanced", file_id, ""))
           ELSE IF HasFile(removed.host, file_id)
           THEN Continue(e, hs, links, Block(exa, "WaitingForFile"), id_generator,
                         Entry(e, exa.host, "GRAB", "blocked", file_id, ""))
           ELSE DieNow(e, "GRAB", "InvalidFileAccess")

\* DROP: the held file goes to the pending set of the host, or the agent waits for room.
ExecuteDrop(e) ==
    /\ Fetched(e, "DROP")
    /\ IsSome(exas[e].file)
    /\ LET exa == exas[e]
           dropped == DropFile(exa)
           inserted == InsertPendingFile(hosts[exa.host], Unwrap(dropped.file))
       IN  IF inserted.ok
           THEN Continue(e, [hosts EXCEPT ![exa.host] = inserted.host], links,
                         Advance(dropped.exa), id_generator,
                         Entry(e, exa.host, "DROP", "advanced", Unwrap(exa.file).id, ""))
           ELSE Continue(e, [hosts EXCEPT ![exa.host] = inserted.host], links,
                         Block([dropped.exa EXCEPT !.file = inserted.file],
                               "WaitingForHostAvailabilityToDropFile"),
                         id_generator,
                         Entry(e, exa.host, "DROP", "blocked", Unwrap(exa.file).id, ""))

\* LINK rn: through the gate to the host behind it; wait while the link is occupied
\* or the destination is full; die for an unknown gate.
ExecuteLink(e) ==
    /\ Fetched(e, "LINK")
    /\ IsSome(EvalSource(exas[e], Instr(e)[2]))
    /\ LET exa == exas[e]
           gate_id == ValueToString(Unwrap(EvalSource(exa, Instr(e)[2])))
           linked == HostLink(hosts, links, hosts[exa.host], gate_id)
       IN  IF linked.err THEN DieNow(e, "LINK", "InvalidLinkTraversal")
           ELSE IF ~IsSome(linked.destination)
           THEN Continue(e, hosts, linked.links, Block(exa, "WaitingForLinkToOpen"),
                         id_generator,
                         Entry(e, exa.host, "LINK", "blocked", gate_id, ""))
           ELSE LET to == Unwrap(linked.destination)
                    left == [hosts EXCEPT ![exa.host] =
                                RemoveOccupyingExaId(@, exa.id).host]
                    entered == [left EXCEPT ![to] = InsertExaId(@, exa.id)]
                IN  Continue(e, entered, linked.links,
                             Advance([exa EXCEPT !.host = to]), id_generator,
                             Entry(e, exa.host, "LINK", "advanced", gate_id, to))

ReplicantResetsRegistersMutant(parent, id, label) ==
    [parent EXCEPT !.id = id,
                   !.x_register = Some(Number(0)),
                   !.t_register = Some(Number(0)),
                   !.program = JumpTo(@, label),
                   !.file = None,
                   !.next_exa_id = 0,
                   !.state = "Running"]
ReplicantClearsTMutant(parent, id, label) ==
    [parent EXCEPT !.id = id,
                   !.t_register = Some(Number(0)),
                   !.program = JumpTo(@, label),
                   !.file = None,
                   !.next_exa_id = 0,
                   !.state = "Running"]
\* The child a REPL returns: a copy of the parent with the new id, the cursor at the
\* label, no file and a replicant counter of its own.
Replicant(parent, id, label) ==
    [parent EXCEPT !.id = id,
                   !.program = JumpTo(@, label),
                   !.file = None,
                   !.next_exa_id = 0,
                   !.state = "Running"]

\* REPL l: fork a child in the same host, or wait for room in it.
ExecuteReplicate(e) ==
    /\ Fetched(e, "REPL")
    /\ LET exa == exas[e]
       IN  IF ~HasAvailableSpace(hosts[exa.host])
           THEN Continue(e, hosts, links,
                         Block(exa, "WaitingForHostAvailabilityToReplicate"),
                         id_generator,
                         Entry(e, exa.host, "REPL", "blocked", "", ""))
           ELSE LET next == NextReplicatedExaId(exa)
                    child == Replicant(next.exa, next.id, Instr(e)[2])
                IN  Commit(e,
                           [hosts EXCEPT ![exa.host] = InsertExaId(@, next.id)],
                           links,
                           MapInsert([exas EXCEPT ![e] = Advance(next.exa)],
                                     next.id, child),
                           id_generator, {next.id},
                           Entry(e, exa.host, "REPL", "replicated", next.id, ""))

(***************************************************************************)
(* The cycle driver (external to the source; §5 of the specification).     *)
(***************************************************************************)
\* The DROPs that succeeded in a cycle: which file went to which host.
Dropped(entries) ==
    {[file |-> entries[i].arg, host |-> entries[i].host] :
        i \in {j \in 1..Len(entries) :
                  entries[j].op = "DROP" /\ entries[j].result = "advanced"}}

RECURSIVE RemoveAll(_, _, _)
\* The agents of `ids` removed from the hosts, one after the other.
RemoveAll(hs, xs, ids) ==
    IF ids = {} THEN hs
    ELSE LET id == CHOOSE i \in ids : TRUE
         IN  RemoveAll(DriverRemove(hs, xs[id]), xs, ids \ {id})

\* End of the cycle: every host takes up its pending files, every link is released,
\* and the agents that died for the next cycle are removed.
EndOfCycle ==
    /\ phase = "run"
    /\ log # <<>>
    /\ DOMAIN exas \subseteq stepped
    /\ LET taken == [h \in HostIds |-> UptakePendingFiles(hosts[h])]
       IN  hosts' = RemoveAll(taken, exas, dying \cap DOMAIN exas)
    /\ links' = [l \in LinkIds |-> [links[l] EXCEPT !.occupied = FALSE]]
    /\ exas' = [x \in (DOMAIN exas) \ dying |-> exas[x]]
    /\ stepped' = {}
    /\ dying' = {}
    /\ prev_dropped' = Dropped(log)
    /\ replicated' = [x \in (DOMAIN exas) \ dying |-> replicated[x]]
    /\ log' = <<>>
    /\ UNCHANGED <<id_generator, phase>>

EndCycle == EndOfCycle /\ UNCHANGED subject

(***************************************************************************)
(* Construction of the world, as the tests do it: hosts and the link       *)
(* first, then files, hardware registers, system agents and agents are     *)
(* inserted through the Host methods, each of which asserts that the host  *)
(* has room.                                                               *)
(***************************************************************************)
InitialExaIds == <<"XA", "XB">>
\* Where each of them may be placed.
InitialExaHosts == <<{"host_1"}, HostIds>>

Init ==
    /\ \E limit_1 \in 1..MaxOccupancy, limit_2 \in 0..MaxOccupancy :
          hosts = [h \in HostIds |->
                     IF h = "host_1"
                     THEN InsertLink(HostNew(h, limit_1), "800", "link")
                     ELSE InsertLink(HostNew(h, limit_2), "-1", "link")]
    /\ links = [l \in LinkIds |-> LinkNew("800", "host_2", "-1", "host_1")]
    /\ exas = EmptyMap
    /\ id_generator = IdGeneratorNew(IdsToAvoid)
    /\ phase = "setup"
    /\ stepped = {}
    /\ dying = {}
    /\ log = <<>>
    /\ prev_dropped = {}
    /\ replicated = EmptyMap
    /\ subject = None

\* host.insert_file(File::new("200"))
SetupInsertFile ==
    /\ phase = "setup"
    /\ \E h \in {"host_1"} :
          /\ HasAvailableSpace(hosts[h])
          /\ ~HasFile(hosts[h], "200")
          /\ hosts' = [hosts EXCEPT ![h] = InsertFile(@, FileNew("200"))]
    /\ UNCHANGED <<links, exas, id_generator, phase, stepped, dying, log, prev_dropped, replicated, subject>>

\* host.insert_hardware_register(HardwareRegister::new("#NERV", WriteOnly))
SetupInsertHardwareRegister ==
    /\ phase = "setup"
    /\ \E h \in {"host_2"} :
          /\ HasAvailableSpace(hosts[h])
          /\ "#NERV" \notin DOMAIN hosts[h].hardware_registers
          /\ hosts' = [hosts EXCEPT ![h] = InsertHardwareRegister(@,
                          HardwareRegisterNew("#NERV", "WriteOnly"))]
    /\ UNCHANGED <<links, exas, id_generator, phase, stepped, dying, log, prev_dropped, replicated, subject>>

\* host.insert_system_exa(Exa::new("SYS", ...))
SetupInsertSystemExa ==
    /\ phase = "setup"
    /\ \E h \in {"host_2"} :
          /\ HasAvailableSpace(hosts[h])
          /\ "SYS" \notin DOMAIN hosts[h].system_exas
          /\ hosts' = [hosts EXCEPT ![h] = InsertSystemExa(@,
                          ExaNew("SYS", ProgramStart("back"), h))]
    /\ UNCHANGED <<links, exas, id_generator, phase, stepped, dying, log, prev_dropped, replicated, subject>>

\* host.insert_exa_id(id) and Exa::new(id, program, host, generator)
SetupInsertExa ==
    /\ phase = "setup"
    /\ MapLen(exas) < Len(InitialExaIds)
    /\ \E h \in InitialExaHosts[MapLen(exas) + 1], name \in ProgramNames :
          LET id == InitialExaIds[MapLen(exas) + 1]
          IN  /\ HasAvailableSpace(hosts[h])
              /\ hosts' = [hosts EXCEPT ![h] = InsertExaId(@, id)]
              /\ exas' = MapInsert(exas, id, ExaNew(id, ProgramStart(name), h))
              /\ replicated' = MapInsert(replicated, id, 0)
    /\ UNCHANGED <<links, id_generator, phase, stepped, dying, log, prev_dropped, subject>>

\* The driver starts its first cycle.
Start ==
    /\ phase = "setup"
    /\ exas # EmptyMap
    /\ phase' = "run"
    /\ UNCHANGED <<hosts, links, exas, id_generator, stepped, dying, log, prev_dropped, replicated, subject>>

StepOutOfInstructions == \E e \in DOMAIN exas : ExecuteOutOfInstructions(e)
StepNoOp == \E e \in DOMAIN exas : ExecuteNoOp(e)
StepCopy == \E e \in DOMAIN exas : ExecuteCopy(e)
StepMultiply == \E e \in DOMAIN exas : ExecuteMultiply(e)
StepHalt == \E e \in DOMAIN exas : ExecuteHalt(e)
StepMake == \E e \in DOMAIN exas : ExecuteMake(e)
StepFile == \E e \in DOMAIN exas : ExecuteFile(e)
StepGrab == \E e \in DOMAIN exas : ExecuteGrab(e)
StepDrop == \E e \in DOMAIN exas : ExecuteDrop(e)
StepLink == \E e \in DOMAIN exas : ExecuteLink(e)
StepReplicate == \E e \in DOMAIN exas : ExecuteReplicate(e)

Next ==
    \/ SetupInsertFile
    \/ SetupInsertHardwareRegister
    \/ SetupInsertSystemExa
    \/ SetupInsertExa
    \/ Start
    \/ StepOutOfInstructions
    \/ StepNoOp
    \/ StepCopy
    \/ StepMultiply
    \/ StepHalt
    \/ StepMake
    \/ StepFile
    \/ StepGrab
    \/ StepDrop
    \/ StepLink
    \/ StepReplicate
    \/ EndCycle

Spec == Init /\ [][Next]_vars

(***************************************************************************)
(* Sanity of the model: the value of every variable has the expected shape,*)
(* and no agent reaches a GRAB while holding a file or a DROP while        *)
(* holding none, the two cases the steps above leave out.                  *)
(***************************************************************************)
NoUnmodelledStep ==
    \A e \in DOMAIN exas :
        IsSome(PeakCurrentInstruction(exas[e].program)) =>
            LET op == Unwrap(PeakCurrentInstruction(exas[e].program))[2][1]
            IN  /\ op = "GRAB" => ~IsSome(exas[e].file)
                /\ op = "DROP" => IsSome(exas[e].file)
                /\ op \in {"GRAB", "LINK"} => IsSome(EvalSource(exas[e], Instr(e)[2]))

(***************************************************************************)
(* Vocabulary of the properties.                                           *)
(***************************************************************************)
\* What a host holds, counted as the occupancy invariant counts it.
Occupancy(h) ==
    MapLen(h.files) + MapLen(h.pending_files) + MapLen(h.hardware_registers)
        + MapLen(h.system_exas) + Cardinality(h.occupying_exa_ids)

\* The host has no free slot.
Full(h) == Occupancy(h) >= h.occupancy_limit

\* The positions of the history of this cycle, and its entries of one kind.
Positions == 1..Len(log)
Is(i, op, result) == log[i].op = op /\ log[i].result = result

\* The successful traversals of the link since its last release.
Traversals == {i \in Positions : Is(i, "LINK", "advanced")}

\* In this transition the driver steps agent e, on the instruction with opcode op.
Steps(e, op) == Fetched(e, op) /\ e \in stepped'

\* The cursor of an agent.
Cursor(exa) == exa.program.stack_index

\* The operand of the GRAB or LINK under the cursor of agent e, as the text the host
\* is asked for.
Operand(e) == ValueToString(Unwrap(EvalSource(exas[e], Instr(e)[2])))

\* The host behind a gate of host h.
Behind(h, gate_id) == Unwrap(LinkDestination(links[hosts[h].links[gate_id]], gate_id))

\* The entry the step of this transition appends to the history.
Outcome == log'[Len(log')]

\* The index of the instruction a label of a source stands for: the number of
\* instructions on the lines before its MARK.
LabelIndex(lines, label) ==
    LET mark == CHOOSE i \in 1..Len(lines) : lines[i] = <<"MARK", label>>
    IN  Cardinality({i \in 1..(mark - 1) : lines[i][1] \notin {"", "#", "MARK"}})

(***************************************************************************)
(* C1.  Host occupancy: in every reachable state, for every host, the      *)
(* number of files, pending files, hardware registers, system agents and   *)
(* occupying agent ids together is at most the occupancy limit, whatever   *)
(* host operations and agent steps (LINK, DROP, GRAB, REPL, HALT) led      *)
(* there.                                                                  *)
(***************************************************************************)
C1_HostOccupancy ==
    \A h \in HostIds : Occupancy(hosts[h]) <= hosts[h].occupancy_limit

\* A host that holds one of each kind it can hold is exactly full when a step of an
\* agent has just been blocked for lack of room.
C1_Witness ==
    /\ log # <<>>
    /\ log[Len(log)].result = "blocked"
    /\ \E h \in HostIds :
          /\ Occupancy(hosts[h]) = hosts[h].occupancy_limit
          /\ hosts[h].occupancy_limit = MaxOccupancy
          /\ hosts[h].hardware_registers # EmptyMap
          /\ hosts[h].system_exas # EmptyMap
          /\ hosts[h].occupying_exa_ids # {}

(***************************************************************************)
(* C2.  Link exclusivity: between two releases of the link at most one     *)
(* agent traverses it, both directions counted together; and once          *)
(* Host::link has returned a destination, the link is occupied and a       *)
(* Host::link call on either gate returns no destination until the         *)
(* release.                                                                *)
(***************************************************************************)
C2_LinkExclusive ==
    /\ Cardinality(Traversals) <= 1
    /\ Traversals # {} =>
          /\ \A l \in LinkIds : links[l].occupied
          /\ \A h \in HostIds : \A gate_id \in DOMAIN hosts[h].links :
                ~IsSome(HostLink(hosts, links, hosts[h], gate_id).destination)

\* One agent went through gate 800, and later in the same cycle another agent was
\* refused at the opposite gate -1 although the host behind it had room.
C2_Witness ==
    \E i, j \in Positions :
        /\ i < j
        /\ Is(i, "LINK", "advanced") /\ log[i].arg = "800"
        /\ Is(j, "LINK", "blocked") /\ log[j].arg = "-1"
        /\ ~Full(hosts["host_1"])

C4_LinkRace ==
    [][\A e \in DOMAIN exas :
          (Steps(e, "LINK") /\ HasLink(hosts[exas[e].host], Operand(e))) =>
              LET h == exas[e].host
                  gate_id == Operand(e)
                  to == Behind(h, gate_id)
              IN  /\ (Traversals = {} /\ ~Full(hosts[to])) =>
                        /\ e \in DOMAIN exas'
                        /\ exas'[e] = [exas[e] EXCEPT !.host = to,
                                                      !.program.stack_index = @ + 1,
                                                      !.state = "Running"]
                        /\ HasOccupyingExaId(hosts'[to], e)
                        /\ ~HasOccupyingExaId(hosts'[h], e)
                        /\ Outcome.result = "advanced"
                  /\ (\E i \in Traversals : log[i].host = h /\ log[i].arg = gate_id) =>
                        /\ exas' = [exas EXCEPT ![e].state = "WaitingForLinkToOpen"]
                        /\ hosts' = hosts
                        /\ HasOccupyingExaId(hosts'[h], e)
                        /\ ~HasOccupyingExaId(hosts'[to], e)
                        /\ Outcome.result = "blocked"
      ]_vars

\* XB and XA, both in host_1, executed LINK 800 in this cycle: XB, stepped first, went
\* through, and XA, stepped second, was blocked although host_2 still has room.
C4_Witness ==
    \E i, j \in Positions :
        /\ i < j
        /\ Is(i, "LINK", "advanced") /\ log[i].exa = "XB"
        /\ Is(j, "LINK", "blocked") /\ log[j].exa = "XA"
        /\ log[i].host = log[j].host /\ log[i].arg = log[j].arg
        /\ ~Full(hosts[log[i].dest])
        /\ exas["XA"].state = "WaitingForLinkToOpen"
        /\ exas["XA"].host = log[j].host

(***************************************************************************)
(* C5.  A file DROPped in a cycle is in the pending set of the host, and   *)
(* no GRAB of the same cycle obtains it: a GRAB of its id before the       *)
(* uptake at the end of the cycle leaves the agent without a file, leaves  *)
(* the file in the host (has_file stays true), sets the state of the agent *)
(* to WaitingForFile, and is neither a success nor a death.                *)
(***************************************************************************)
C5_DroppedFilePending ==
    /\ [](\A d \in Dropped(log) :
             /\ d.file \in DOMAIN hosts[d.host].pending_files
             /\ d.file \notin DOMAIN hosts[d.host].files
             /\ \A e \in DOMAIN exas :
                   IsSome(exas[e].file) => Unwrap(exas[e].file).id # d.file)
    /\ [][\A e \in DOMAIN exas :
             (Steps(e, "GRAB")
                /\ [file |-> Operand(e), host |-> exas[e].host] \in Dropped(log)) =>
                 /\ e \in DOMAIN exas'
                 /\ exas' = [exas EXCEPT ![e].state = "WaitingForFile"]
                 /\ exas'[e].file = None
                 /\ HasFile(hosts'[exas[e].host], Operand(e))
                 /\ hosts' = hosts
                 /\ Outcome.result = "blocked"
         ]_vars

\* File 400 was dropped in host_1 in this cycle, and an agent of host_1 that executed
\* GRAB 400 later in the cycle is waiting for it.
C5_Witness ==
    \E i, j \in Positions :
        /\ i < j
        /\ Is(i, "DROP", "advanced") /\ log[i].arg = "400"
        /\ Is(j, "GRAB", "blocked") /\ log[j].arg = "400"
        /\ log[i].host = log[j].host
        /\ log[i].exa # log[j].exa
        /\ exas[log[j].exa].state = "WaitingForFile"

(***************************************************************************)
(* C6.  MAKE, DROP, GRAB round trip: a file an agent made and dropped on   *)
(* host H is taken up by H at the end of that cycle, and the first GRAB of *)
(* its id on H in the next cycle succeeds: the file leaves the files of H, *)
(* the agent holds it, and its id is the Keyword FILE reported before the  *)
(* DROP.  uptake_pending_files moves every pending file to files and       *)
(* leaves pending_files empty.                                             *)
(***************************************************************************)
C6_RoundTrip ==
    /\ [](\A h \in HostIds :
             LET taken == UptakePendingFiles(hosts[h])
             IN  /\ taken.pending_files = EmptyMap
                 /\ DOMAIN taken.files =
                        DOMAIN hosts[h].files \cup DOMAIN hosts[h].pending_files
                 /\ \A f \in DOMAIN hosts[h].pending_files :
                        taken.files[f] = hosts[h].pending_files[f]
                 /\ \A f \in DOMAIN hosts[h].files \ DOMAIN hosts[h].pending_files :
                        taken.files[f] = hosts[h].files[f])
    /\ [](\A d \in prev_dropped :
             (\A i \in Positions :
                 ~(log[i].op = "GRAB" /\ log[i].host = d.host /\ log[i].arg = d.file)) =>
                 /\ d.file \in DOMAIN hosts[d.host].files
                 /\ d.file \notin DOMAIN hosts[d.host].pending_files)
    /\ [][\A e \in DOMAIN exas :
             (Steps(e, "GRAB")
                /\ [file |-> Operand(e), host |-> exas[e].host] \in prev_dropped
                /\ \A i \in Positions :
                      ~(/\ log[i].op = "GRAB"
                        /\ log[i].host = exas[e].host
                        /\ log[i].arg = Operand(e))) =>
                 LET h == exas[e].host
                     f == Operand(e)
                 IN  /\ e \in DOMAIN exas'
                     /\ exas'[e] = [exas[e] EXCEPT !.file = Some(hosts[h].files[f]),
                                                   !.program.stack_index = @ + 1,
                                                   !.state = "Running"]
                     /\ Unwrap(exas'[e].file).id = f
                     /\ ~HasFile(hosts'[h], f)
                     /\ hosts' = [hosts EXCEPT ![h].files = MapRemove(@, f)]
                     /\ Outcome.result = "advanced"
                     /\ Instr(e)[2] = RegisterId("X") =>
                            FileId(Unwrap(exas'[e].file)) = Unwrap(exas[e].x_register)
         ]_vars

\* XA ran MAKE, FILE X, DROP and, a cycle later, GRAB X: it holds file 400 again, X
\* still has the Keyword FILE reported, and the host has the file no more.
C6_Witness ==
    /\ log # <<>>
    /\ log[Len(log)].exa = "XA"
    /\ Is(Len(log), "GRAB", "advanced")
    /\ "XA" \in DOMAIN exas
    /\ exas["XA"].program.name = "drop"
    /\ exas["XA"].file = Some(FileNew("400"))
    /\ exas["XA"].x_register = Some(Keyword("400"))
    /\ [file |-> "400", host |-> exas["XA"].host] \in prev_dropped
    /\ ~HasFile(hosts[exas["XA"].host], "400")

(***************************************************************************)
(* C7.  A DROP on a host with no available space blocks instead of         *)
(* failing: the agent keeps its file, the files and pending files of the   *)
(* host are unchanged, the step is not an error, and the state of the      *)
(* agent becomes WaitingForHostAvailabilityToDropFile.  On a full host,    *)
(* insert_pending_file returns NoRoomForFile with the same file and leaves *)
(* the host unchanged.                                                     *)
(***************************************************************************)
C7_DropOnFullHostBlocks ==
    /\ [](\A h \in HostIds : \A e \in DOMAIN exas :
             (Full(hosts[h]) /\ IsSome(exas[e].file)) =>
                 InsertPendingFile(hosts[h], Unwrap(exas[e].file)) =
                     [ok |-> FALSE, host |-> hosts[h], file |-> exas[e].file])
    /\ [][\A e \in DOMAIN exas :
             (Steps(e, "DROP") /\ Full(hosts[exas[e].host])) =>
                 /\ exas' = [exas EXCEPT ![e].state =
                                "WaitingForHostAvailabilityToDropFile"]
                 /\ exas'[e].file = exas[e].file
                 /\ IsSome(exas'[e].file)
                 /\ hosts' = hosts
                 /\ Outcome.result = "blocked"
         ]_vars

\* The last step was a DROP that was blocked: the agent still holds the file, and its
\* host, which holds other things than this agent, has no free slot.
C7_Witness ==
    /\ log # <<>>
    /\ Is(Len(log), "DROP", "blocked")
    /\ LET e == log[Len(log)].exa
       IN  /\ exas[e].state = "WaitingForHostAvailabilityToDropFile"
           /\ IsSome(exas[e].file)
           /\ Full(hosts[exas[e].host])
           /\ hosts[exas[e].host].occupancy_limit > 1

(***************************************************************************)
(* C8.  Scenario S4 as the specification states it: agent A lives in host  *)
(* H, whose occupancy limit is 1, and executes MAKE and then DROP; the     *)
(* DROP succeeds in that cycle: the file is pending in H, A holds no file, *)
(* and the cursor of A has advanced.                                       *)
(***************************************************************************)
C8_Original ==
    \A i \in Positions :
        (/\ log[i].op = "DROP"
         /\ exas[log[i].exa].program.name = "drop"
         /\ hosts[log[i].host].occupancy_limit = 1) =>
            /\ log[i].result = "advanced"
            /\ log[i].arg \in DOMAIN hosts[log[i].host].pending_files
            /\ exas[log[i].exa].file = None
            /\ Cursor(exas[log[i].exa]) = 3

(***************************************************************************)
(* C8, as the code has it: A itself takes the one slot of H, so H has no   *)
(* available space.  The MAKE succeeds and takes no slot; the DROP is      *)
(* blocked: A keeps the file, nothing is pending in H, the cursor of A     *)
(* stays on the DROP, and the state of A is                                *)
(* WaitingForHostAvailabilityToDropFile.                                   *)
(***************************************************************************)
C8_DropAtLimitOneBlocks ==
    [][\A e \in DOMAIN exas :
          (/\ exas[e].program.name = "drop"
           /\ hosts[exas[e].host].occupancy_limit = 1
           /\ HasOccupyingExaId(hosts[exas[e].host], e)) =>
              /\ Steps(e, "MAKE") =>
                    /\ e \in DOMAIN exas'
                    /\ IsSome(exas'[e].file)
                    /\ Cursor(exas'[e]) = Cursor(exas[e]) + 1
                    /\ hosts' = hosts
              /\ Steps(e, "DROP") =>
                    /\ exas' = [exas EXCEPT ![e].state =
                                   "WaitingForHostAvailabilityToDropFile"]
                    /\ IsSome(exas'[e].file)
                    /\ hosts'[exas[e].host].pending_files = EmptyMap
                    /\ hosts' = hosts
                    /\ Outcome.result = "blocked"
      ]_vars

\* XA, alone in host_1 with occupancy limit 1, ran MAKE and FILE X and was blocked on
\* its DROP: it holds file 400 and nothing is pending in host_1.
C8_Witness ==
    /\ log # <<>>
    /\ Is(Len(log), "DROP", "blocked")
    /\ log[Len(log)].exa = "XA"
    /\ exas["XA"].program.name = "drop"
    /\ hosts[exas["XA"].host].occupancy_limit = 1
    /\ hosts[exas["XA"].host].occupying_exa_ids = {"XA"}
    /\ hosts[exas["XA"].host].pending_files = EmptyMap
    /\ exas["XA"].file = Some(FileNew("400"))
    /\ Cursor(exas["XA"]) = 2

(***************************************************************************)
(* C9.  A REPL attempted while the host of the parent has no available     *)
(* space is blocked without side effects: no child is created, no id is    *)
(* inserted in the occupying set of the host, the replicant counter of the *)
(* parent is not incremented (it always is the number of its successful    *)
(* REPLs, so the child of the later retry gets the suffix it would have    *)
(* had), the cursor of the parent stays, and the state of the parent       *)
(* becomes WaitingForHostAvailabilityToReplicate.                          *)
(***************************************************************************)
C9_BlockedReplicate ==
    /\ [](\A e \in DOMAIN exas : exas[e].next_exa_id = replicated[e])
    /\ [][\A e \in DOMAIN exas :
             (Steps(e, "REPL") /\ Full(hosts[exas[e].host])) =>
                 /\ exas' = [exas EXCEPT ![e].state =
                                "WaitingForHostAvailabilityToReplicate"]
                 /\ DOMAIN exas' = DOMAIN exas
                 /\ exas'[e].next_exa_id = exas[e].next_exa_id
                 /\ Cursor(exas'[e]) = Cursor(exas[e])
                 /\ hosts' = hosts
                 /\ replicated' = replicated
                 /\ Outcome.result = "blocked"
         ]_vars

\* An agent that has replicated once was blocked on its second REPL: its counter is 1,
\* its first child is live, and no second child exists.
C9_Witness ==
    /\ log # <<>>
    /\ Is(Len(log), "REPL", "blocked")
    /\ LET e == log[Len(log)].exa
       IN  /\ exas[e].state = "WaitingForHostAvailabilityToReplicate"
           /\ exas[e].next_exa_id = 1
           /\ (e \o ":0") \in DOMAIN exas
           /\ (e \o ":1") \notin DOMAIN exas
           /\ ~HasOccupyingExaId(hosts[exas[e].host], e \o ":1")

(***************************************************************************)
(* C10.  A successful REPL L in a host with room returns a child whose id  *)
(* is the id of the parent, ':' and the replicant counter of the parent    *)
(* before the step (0, 1, 2, ... in the order of the successful REPLs);    *)
(* it increments that counter by one, inserts the id of the child in the   *)
(* occupying set of the host of the parent, where the id of the parent     *)
(* stays, advances the cursor of the parent by one, and sets the cursor of *)
(* the child to the instruction index of label L.                          *)
(***************************************************************************)
C10_Replicate ==
    [][\A e \in DOMAIN exas :
          (Steps(e, "REPL") /\ ~Full(hosts[exas[e].host])) =>
              LET h == exas[e].host
                  child == e \o ":" \o ToString(replicated[e])
              IN  /\ exas[e].next_exa_id = replicated[e]
                  /\ child \notin DOMAIN exas
                  /\ DOMAIN exas' = DOMAIN exas \cup {child}
                  /\ exas'[child].id = child
                  /\ exas'[child].host = h
                  /\ exas'[e].next_exa_id = exas[e].next_exa_id + 1
                  /\ hosts'[h].occupying_exa_ids =
                         hosts[h].occupying_exa_ids \cup {child}
                  /\ HasOccupyingExaId(hosts'[h], e)
                  /\ Cursor(exas'[e]) = Cursor(exas[e]) + 1
                  /\ Cursor(exas'[child]) =
                         LabelIndex(Sources[exas[e].program.name], Instr(e)[2])
                  /\ Outcome.result = "replicated"
      ]_vars

\* XA has replicated twice: its children XA:0 and XA:1 are live in its host, its
\* counter is 2, and the second child stands on the instruction of the label.
C10_Witness ==
    /\ log # <<>>
    /\ Is(Len(log), "REPL", "replicated")
    /\ log[Len(log)].exa = "XA"
    /\ log[Len(log)].arg = "XA:1"
    /\ {"XA", "XA:0", "XA:1"} \subseteq DOMAIN exas
    /\ exas["XA"].next_exa_id = 2
    /\ {"XA", "XA:1"} \subseteq hosts[exas["XA"].host].occupying_exa_ids
    /\ Cursor(exas["XA:1"]) = 4
    /\ Cursor(exas["XA"]) = 3

(***************************************************************************)
(* Vocabulary of the properties of replication and of file ownership.      *)
(***************************************************************************)
\* The successful REPLs of this cycle, as positions of the history: the parent is
\* log[i].exa, the child log[i].arg.  Neither steps again before the cycle ends.
Births == {i \in Positions : Is(i, "REPL", "replicated")}

\* The file ids the world may hold: the one placed by hand and those generated so far.
FileIds == {"200"} \cup {ToString(n) : n \in FirstFileId..(id_generator.next_id - 1)}

\* The places a file id is in: the agents that hold it, the hosts that have it in
\* files, the hosts that have it in pending_files.
Holders(f) == {e \in DOMAIN exas : IsSome(exas[e].file) /\ Unwrap(exas[e].file).id = f}
Keepers(f) == {h \in HostIds : f \in DOMAIN hosts[h].files}
Pending(f) == {h \in HostIds : f \in DOMAIN hosts[h].pending_files}
Places(f) == Cardinality(Holders(f)) + Cardinality(Keepers(f)) + Cardinality(Pending(f))

(***************************************************************************)
(* C11.  As the specification states it: the child created by REPL starts  *)
(* with X = Number(0), T = Number(0) and an empty F, whatever X and T of   *)
(* the parent hold at the time of the REPL.                                *)
(***************************************************************************)
C11_Original ==
    \A i \in Births :
        /\ exas[log[i].arg].x_register = Some(Number(0))
        /\ exas[log[i].arg].t_register = Some(Number(0))
        /\ exas[log[i].arg].file = None

(***************************************************************************)
(* C11, as the code has it: the child created by REPL is a copy of the     *)
(* parent, so it starts with the X and the T the parent has at the time of *)
(* the REPL; it holds no file, so its F is empty.  In scenario S2 the      *)
(* parent has X = 333 and so has the child.                                *)
(***************************************************************************)
C11_ChildRegisters ==
    \A i \in Births :
        LET parent == exas[log[i].exa]
            child == exas[log[i].arg]
        IN  /\ child.x_register = parent.x_register
            /\ child.t_register = parent.t_register
            /\ child.file = None
            /\ parent.program.name = "replicate" => child.x_register = Some(Number(333))
            /\ parent.program.name = "spawn" => child.t_register = Some(Number(7))

\* Scenario S2: XA ran COPY 333 X, MAKE and REPL LABEL; it holds file 400, and its
\* child XA:0 has X = 333, T = 0 and no file.
C11_Witness ==
    \E i \in Births :
        /\ log[i].exa = "XA" /\ log[i].arg = "XA:0"
        /\ exas["XA"].program.name = "replicate"
        /\ exas["XA"].x_register = Some(Number(333))
        /\ exas["XA"].file = Some(FileNew("400"))
        /\ exas["XA:0"].x_register = Some(Number(333))
        /\ exas["XA:0"].t_register = Some(Number(0))
        /\ exas["XA:0"].file = None

(***************************************************************************)
(* C12.  The child returned by REPL is a copy of the executing agent with  *)
(* a new id, so it carries the X of the parent at the time of the REPL:    *)
(* with X = 333 in the parent, the first instruction of the child,         *)
(* MULI 2 X X, leaves X = 666 in the child.                                *)
(***************************************************************************)
C12_ChildCarriesX ==
    /\ [](\A e \in DOMAIN exas :
             (e \notin {InitialExaIds[k] : k \in DOMAIN InitialExaIds}
                /\ exas[e].program.name = "replicate") =>
                 /\ Cursor(exas[e]) = 4 => exas[e].x_register = Some(Number(333))
                 /\ Cursor(exas[e]) = 5 => exas[e].x_register = Some(Number(666)))
    /\ [][\A e \in DOMAIN exas :
             (Steps(e, "REPL") /\ ~Full(hosts[exas[e].host])) =>
                 LET child == exas'[Outcome.arg]
                 IN  /\ child.id = Outcome.arg
                     /\ child.id # e
                     /\ child.x_register = exas[e].x_register
                     /\ child.program.name = exas[e].program.name
                     /\ child.host = exas[e].host
                     /\ child.communication_mode = exas[e].communication_mode
         ]_vars

\* The child XA:0 of scenario S2 has run its MULI 2 X X: its X is 666.
C12_Witness ==
    /\ "XA:0" \in DOMAIN exas
    /\ exas["XA:0"].program.name = "replicate"
    /\ Cursor(exas["XA:0"]) = 5
    /\ exas["XA:0"].x_register = Some(Number(666))
    /\ log # <<>>
    /\ log[Len(log)].exa = "XA:0"
    /\ Is(Len(log), "MULI", "advanced")

world == <<hosts, links, exas, id_generator, phase, stepped, dying, log, prev_dropped,
           replicated>>

NoWorld ==
    /\ hosts = EmptyMap
    /\ links = EmptyMap
    /\ exas = EmptyMap
    /\ id_generator = IdGeneratorNew({})
    /\ phase = "none"
    /\ stepped = {}
    /\ dying = {}
    /\ log = <<>>
    /\ prev_dropped = {}
    /\ replicated = EmptyMap

(***************************************************************************)
(* Agent ids.  The agents are kept in a list, so that two of them may bear *)
(* the same id; `produced` lists what Exa::next_replicated_exa_id has      *)
(* returned.  The initial agents have pairwise distinct ids, among them    *)
(* "XA:0", the id test_next_replicated_exa_id gives to an initial agent.   *)
(***************************************************************************)
InitialIdLists ==
    { <<"XA">>, <<"XA", "XB">>, <<"XA", "XA:0">>, <<"XA:0", "XB">>, <<"XA", "XB", "XA:0">> }

IdsInit ==
    /\ NoWorld
    /\ \E ids \in InitialIdLists :
          subject = [initial |-> ids,
                     agents |-> [k \in DOMAIN ids |->
                                    ExaNew(ids[k], ProgramStart("spawn"), "host_1")],
                     produced |-> <<>>]

\* A successful REPL of agent k: the new id from Exa::next_replicated_exa_id, and the
\* child with that id.
IdsReplicate ==
    /\ Len(subject.produced) < MaxReplications
    /\ \E k \in DOMAIN subject.agents :
          LET next == NextReplicatedExaId(subject.agents[k])
          IN  subject' = [subject EXCEPT
                  !.agents = Append([@ EXCEPT ![k] = [next.exa EXCEPT !.state = "Running"]],
                                    ExaNew(next.id, ProgramStart("spawn"), "host_1")),
                  !.produced = Append(@, next.id)]
    /\ UNCHANGED world

\* A blocked REPL of agent k: Exa::next_replicated_exa_id is not called.
IdsBlockedReplicate ==
    /\ \E k \in DOMAIN subject.agents :
          /\ subject.agents[k].state = "Running"
          /\ subject' = [subject EXCEPT
                  !.agents[k].state = "WaitingForHostAvailabilityToReplicate"]
    /\ UNCHANGED world

IdsNext == IdsReplicate \/ IdsBlockedReplicate

SpecIds == IdsInit /\ [][IdsNext]_vars

(***************************************************************************)
(* C14.  Agent ids are unique: after any sequence of successful and        *)
(* blocked REPLs by any agents, starting from initial agents with pairwise *)
(* distinct ids, the ids Exa::next_replicated_exa_id has produced are      *)
(* pairwise distinct, and distinct from every initial agent id.            *)
(***************************************************************************)
C14_UniqueIds ==
    /\ \A i, j \in DOMAIN subject.produced :
          i # j => subject.produced[i] # subject.produced[j]
    /\ \A i \in DOMAIN subject.produced : \A k \in DOMAIN subject.initial :
          subject.produced[i] # subject.initial[k]

\* What does hold: when no initial id has the form of a replicated id (none contains
\* a ':'), the ids produced are pairwise distinct and distinct from the initial ids.
C14_UniqueIdsWithoutColon ==
    subject.initial \in { <<"XA">>, <<"XA", "XB">> } => C14_UniqueIds

(***************************************************************************)
(* The IdGenerator, shared by two file Generators as in                    *)
(* test_generate_files_with_multiple_generators.  `n` is the value of      *)
(* next_id the last id was rendered from, `id` the string returned, `by`   *)
(* the Generator that asked, `count` the number of ids returned so far.    *)
(* A panic ends the run.                                                   *)
(***************************************************************************)
\* The lists of ids to avoid IdGenerator::new is given.
IdsToAvoidLists == SUBSET {200, 400, 401, 9999}

IdGeneratorInit ==
    /\ NoWorld
    /\ \E ids_to_avoid \in IdsToAvoidLists :
          subject = [generator |-> IdGeneratorNew(ids_to_avoid),
                     id |-> "", n |-> 0, by |-> 0, count |-> 0, panicked |-> FALSE]

\* generator.generate() by the Generator `by`.
Generate(by) ==
    /\ ~subject.panicked
    /\ LET made == GeneratorGenerate(subject.generator)
       IN  subject' =
              IF made.panicked THEN [subject EXCEPT !.panicked = TRUE, !.by = by]
              ELSE [generator |-> made.generator,
                    id |-> made.file.id,
                    n |-> subject.generator.next_id,
                    by |-> by,
                    count |-> subject.count + 1,
                    panicked |-> FALSE]
    /\ UNCHANGED world

GenerateByFirst == Generate(1)
GenerateBySecond == Generate(2)

IdGeneratorStep == GenerateByFirst \/ GenerateBySecond

SpecIdGenerator == IdGeneratorInit /\ [][IdGeneratorStep]_vars

\* The smallest value from 400 on that is not to be avoided.
FirstFreeId(ids_to_avoid) ==
    CHOOSE m \in FirstFileId..(FirstFileId + Cardinality(ids_to_avoid)) :
        /\ m \notin ids_to_avoid
        /\ \A k \in FirstFileId..(m - 1) : k \in ids_to_avoid

(***************************************************************************)
(* C15.  The file ids of one IdGenerator are unique and ordered, also when *)
(* several Generators share it: the ids next() returns are strictly        *)
(* increasing as integers, start at the smallest value from 400 on that is *)
(* not in the avoid-set, are never in the avoid-set, and never exceed      *)
(* 9999: the call that would return more panics instead.                   *)
(***************************************************************************)
C15_FileIds ==
    /\ [](subject.count >= 1 =>
             /\ subject.id = ToString(subject.n)
             /\ subject.n \notin subject.generator.ids_to_avoid
             /\ subject.n >= 400
             /\ subject.n <= 9999)
    /\ [](subject.count = 1 => subject.n = FirstFreeId(subject.generator.ids_to_avoid))
    /\ [](subject.generator.next_id > subject.n
             /\ subject.generator.next_id \notin subject.generator.ids_to_avoid)
    /\ [][(subject.count >= 1 /\ subject'.count = subject.count + 1) =>
             subject'.n > subject.n]_vars
    /\ [][subject'.panicked =>
             /\ subject.generator.next_id > 9999
             /\ subject'.count = subject.count
             /\ subject'.id = subject.id]_vars
    /\ [](subject.generator.next_id > 9999 => IdGeneratorNext(subject.generator).panicked)

\* With 400, 401 and 9999 to avoid, the two Generators got the ids from 402 to 9998,
\* the last one went to the first Generator, and the call of the second panicked.
C15_Witness ==
    /\ subject.panicked
    /\ {400, 401, 9999} \subseteq subject.generator.ids_to_avoid
    /\ subject.id = "9998"
    /\ subject.count = 9597
    /\ subject.generator.next_id = 10000
    /\ subject.by = 2

(***************************************************************************)
(* A File and its methods.  `op` and `arg` say which method was last       *)
(* applied and with what offset; `before` is the file before that call.    *)
(***************************************************************************)
\* The offsets given to adjust_index (those of the tests of src/file/mod.rs) and the
\* values written to a file.
Offsets == {-9999, -2, -1, 1, 2, 9999}
FileValues == {Number(666), Number(-1), Keyword("keyword1")}

\* The subject after a method has been applied to its file.
Applied(op, arg, file) ==
    [file |-> file, op |-> op, arg |-> arg, before |-> subject.file]

FileInit ==
    /\ NoWorld
    /\ subject = [file |-> FileNew("200"), op |-> "new", arg |-> 0,
                  before |-> FileNew("200")]

AdjustIndex ==
    /\ \E offset \in Offsets :
          subject' = Applied("adjust_index", offset, FileAdjustIndex(subject.file, offset))
    /\ UNCHANGED world

AppendValue ==
    /\ FileLen(subject.file) < MaxContents
    /\ \E with \in FileValues :
          subject' = Applied("append", 0, FileAppend(subject.file, with))
    /\ UNCHANGED world

RemoveCurrent ==
    /\ subject' = Applied("remove_current", 0, FileRemoveCurrent(subject.file))
    /\ UNCHANGED world

ReplaceCurrent ==
    /\ FileIsEof(subject.file) => FileLen(subject.file) < MaxContents
    /\ \E with \in FileValues :
          subject' = Applied("replace_current", 0, FileReplaceCurrent(subject.file, with))
    /\ UNCHANGED world

FileNext == AdjustIndex \/ AppendValue \/ RemoveCurrent \/ ReplaceCurrent

SpecFile == FileInit /\ [][FileNext]_vars

\* max and min of two integers, for the statements below.
Larger(a, b) == IF a >= b THEN a ELSE b
Smaller(a, b) == IF a <= b THEN a ELSE b

(***************************************************************************)
(* C16.  File cursor: after any sequence of adjust_index (with any signed  *)
(* offset), append, remove_current and replace_current on a file,          *)
(* 0 <= index <= len(contents); adjust_index sets the index to             *)
(* min(len, max(0, index + offset)).                                       *)
(***************************************************************************)
C16_FileCursor ==
    /\ subject.file.index >= 0
    /\ subject.file.index <= Len(subject.file.contents)
    /\ subject.op = "adjust_index" =>
          /\ subject.file.index =
                Smaller(Len(subject.before.contents),
                        Larger(0, subject.before.index + subject.arg))
          /\ subject.file.contents = subject.before.contents
    /\ \A offset \in Offsets :
          FileAdjustIndex(subject.file, offset).index =
              Smaller(Len(subject.file.contents), Larger(0, subject.file.index + offset))

\* In a file of three values with the cursor on the second, adjust_index(9999) has
\* put the cursor at the end.
C16_Witness ==
    /\ subject.op = "adjust_index"
    /\ subject.arg = 9999
    /\ Len(subject.before.contents) = 3
    /\ subject.before.index = 1
    /\ subject.file.index = 3

(***************************************************************************)
(* C17.  SEEK at the boundaries, as the specification states it: for every *)
(* k > 0 and every held file, SEEK -k and then SEEK +k with the cursor at  *)
(* position 0 leaves the cursor at position 0, and SEEK +k and then        *)
(* SEEK -k with the cursor at the end leaves the cursor at the end.        *)
(***************************************************************************)
C17_Original ==
    \A k \in {offset \in Offsets : offset > 0} :
        /\ subject.file.index = 0 =>
              FileAdjustIndex(FileAdjustIndex(subject.file, -k), k).index = 0
        /\ FileIsEof(subject.file) =>
              FileIsEof(FileAdjustIndex(FileAdjustIndex(subject.file, k), -k))

(***************************************************************************)
(* C17, as the code has it: SEEK saturates and does not remember what it   *)
(* cut off.  With the cursor at position 0, SEEK -k leaves it at 0 and the *)
(* SEEK +k that follows moves it to min(k, len), which is 0 for an empty   *)
(* file only; with the cursor at the end, SEEK +k leaves it at the end and *)
(* the SEEK -k that follows moves it to max(0, len - k).  The round trips  *)
(* that return are the other two: SEEK +k then SEEK -k from position 0,    *)
(* and SEEK -k then SEEK +k from the end.                                  *)
(***************************************************************************)
C17_SeekAtBoundaries ==
    \A k \in {offset \in Offsets : offset > 0} :
        LET file == subject.file
            len == FileLen(file)
        IN  /\ file.index = 0 =>
                  /\ FileAdjustIndex(file, -k).index = 0
                  /\ FileAdjustIndex(FileAdjustIndex(file, -k), k).index = Smaller(k, len)
                  /\ FileAdjustIndex(FileAdjustIndex(file, k), -k).index = 0
            /\ FileIsEof(file) =>
                  /\ FileAdjustIndex(file, k).index = len
                  /\ FileAdjustIndex(FileAdjustIndex(file, k), -k).index = Larger(0, len - k)
                  /\ FileIsEof(FileAdjustIndex(FileAdjustIndex(file, -k), k))
            /\ (subject.op = "adjust_index" /\ subject.before.index = 0
                  /\ subject.arg < 0) => file.index = 0
            /\ (subject.op = "adjust_index" /\ FileIsEof(subject.before)
                  /\ subject.arg > 0) => FileIsEof(file)

\* A file of three values whose cursor was at position 0 when SEEK -2 was applied:
\* the cursor is still at 0, and SEEK +2 would now move it to 2.
C17_Witness ==
    /\ subject.op = "adjust_index"
    /\ subject.arg = -2
    /\ subject.before.index = 0
    /\ FileLen(subject.file) = 3
    /\ subject.file.index = 0
    /\ FileAdjustIndex(subject.file, 2).index = 2

(***************************************************************************)
(* A program on its own: Program::new applied to one of the sources, then  *)
(* any sequence of get_current_instruction and jump_to.                    *)
(***************************************************************************)

\* The labels jump_to is called with: the operands of the jumping instructions of
\* the program, and the labels its marks define.
JumpLabels(name) ==
    {Programs[name].instructions[i][2][2] :
        i \in {j \in 1..Len(Programs[name].instructions) :
                 Programs[name].instructions[j][2][1] \in {"JUMP", "TJMP", "FJMP", "REPL"}}}
    \cup {LabelId(label) : label \in DOMAIN Programs[name].marks}

ProgramInit ==
    /\ NoWorld
    /\ \E name \in DOMAIN AllSources :
          subject = [name |-> name,
                     program |-> IF Programs[name].ok THEN Some(ProgramStart(name)) ELSE None,
                     error |-> Programs[name].errors,
                     op |-> "new", arg |-> None, returned |-> None,
                     before |-> None, panicked |-> FALSE]

GetInstruction ==
    /\ IsSome(subject.program)
    /\ ~subject.panicked
    /\ LET response == GetCurrentInstruction(Unwrap(subject.program))
       IN  subject' = [subject EXCEPT !.program = Some(response.program),
                                      !.op = "get_current_instruction",
                                      !.arg = None,
                                      !.returned = response.instruction,
                                      !.before = subject.program]
    /\ UNCHANGED world

Jump ==
    /\ IsSome(subject.program)
    /\ ~subject.panicked
    /\ \E mark_label \in JumpLabels(subject.name) :
          subject' = [subject EXCEPT
                         !.program = IF JumpToPanics(Unwrap(subject.program), mark_label)
                                     THEN subject.program
                                     ELSE Some(JumpTo(Unwrap(subject.program), mark_label)),
                         !.panicked = JumpToPanics(Unwrap(subject.program), mark_label),
                         !.op = "jump_to",
                         !.arg = Some(mark_label),
                         !.returned = None,
                         !.before = subject.program]
    /\ UNCHANGED world

ProgramNext == GetInstruction \/ Jump

SpecProgram == ProgramInit /\ [][ProgramNext]_vars

(***************************************************************************)
(* C18.  The cursor of a program stays between 0 and the number of its     *)
(* instructions through every sequence of get_current_instruction and      *)
(* jump_to with labels of the program.  get_current_instruction returns    *)
(* the instruction under the cursor and moves the cursor by exactly one    *)
(* when there is one; at the end it returns none and leaves the cursor     *)
(* where it is.                                                            *)
(***************************************************************************)
C18_ProgramCursor ==
    IsSome(subject.program) =>
        LET p == Unwrap(subject.program)
            len == ProgramLen(p)
        IN  /\ p.stack_index \in 0..len
            /\ GetCurrentInstruction(p).program.stack_index \in 0..len
            /\ subject.op = "get_current_instruction" =>
                  LET old == Unwrap(subject.before).stack_index
                  IN  IF old < len
                      THEN /\ subject.returned = Some(Programs[p.name].instructions[old + 1])
                           /\ p.stack_index = old + 1
                      ELSE /\ subject.returned = None
                           /\ p.stack_index = old

\* The program whose last line is MARK END, after JUMP END moved the cursor behind
\* its two instructions and get_current_instruction was called there: nothing
\* is returned and the cursor has not moved.
C18_Witness ==
    /\ subject.name = "forward"
    /\ subject.op = "get_current_instruction"
    /\ subject.returned = None
    /\ subject.before = subject.program
    /\ Unwrap(subject.program).stack_index = 2
    /\ ProgramLen(Unwrap(subject.program)) = 2

(***************************************************************************)
(* C19.  Program::new returns a program exactly when every line it does    *)
(* not skip parses and every label a JUMP, TJMP, FJMP or REPL names is     *)
(* defined by a MARK somewhere in the source, before or after the use.     *)
(* Otherwise it returns the errors of all the lines, ordered by line       *)
(* number: InvalidInstruction for each line that does not parse and        *)
(* MissingMarkLabel for each use of an undefined label.  So jump_to never  *)
(* panics when given a label operand of a program that was constructed.    *)
(***************************************************************************)
C19_ProgramNew ==
    LET lines == AllSources[subject.name]
        unparsed == {i \in 1..Len(lines) : lines[i][1] = "!"}
        defined == {lines[i][2] : i \in {j \in 1..Len(lines) : lines[j][1] = "MARK"}}
        undefined == {i \in 1..Len(lines) :
                        /\ lines[i][1] \in {"JUMP", "TJMP", "FJMP", "REPL"}
                        /\ lines[i][2] \notin defined}
        error == subject.error
    IN  /\ IsSome(subject.program) <=> (unparsed = {} /\ undefined = {})
        /\ IsSome(subject.program) <=> error = <<>>
        /\ Len(error) = Cardinality(unparsed \cup undefined)
        /\ \A k \in 1..(Len(error) - 1) : error[k].line_number < error[k + 1].line_number
        /\ \A i \in unparsed :
              \E k \in 1..Len(error) :
                 error[k] = [kind |-> "InvalidInstruction", line_number |-> i - 1,
                             detail |-> lines[i][2]]
        /\ \A i \in undefined :
              \E k \in 1..Len(error) :
                 error[k] = [kind |-> "MissingMarkLabel", line_number |-> i - 1,
                             detail |-> lines[i][2].s]
        /\ ~subject.panicked
        /\ IsSome(subject.program) =>
              \A i \in 1..Len(lines) :
                 lines[i][1] \in {"JUMP", "TJMP", "FJMP", "REPL"} =>
                    /\ ~JumpToPanics(Unwrap(subject.program), lines[i][2])
                    /\ JumpTo(Unwrap(subject.program), lines[i][2]).stack_index
                          \in 0..ProgramLen(Unwrap(subject.program))

\* The source of test_try_from_str_array_err: no program, and the three errors of
\* lines 0, 3 and 6 in that order.
C19_Witness ==
    /\ subject.name = "invalid"
    /\ subject.op = "new"
    /\ subject.program = None
    /\ subject.error =
          << [kind |-> "InvalidInstruction", line_number |-> 0, detail |-> "InvalidLineLength"],
             [kind |-> "InvalidInstruction", line_number |-> 3, detail |-> "InvalidValues"],
             [kind |-> "MissingMarkLabel", line_number |-> 6, detail |-> "THIS_LABEL"] >>

(***************************************************************************)
(* Registers on their own: a BasicRegister and a HardwareRegister of       *)
(* either access mode, and any sequence of writes to them and of reads of  *)
(* the HardwareRegister.                                                   *)
(***************************************************************************)

\* The values written: numbers at and next to both limits, a keyword, a label id
\* and a register id.
WrittenValues ==
    { Number(MinNumber - 1), Number(MinNumber), Number(0), Number(MaxNumber),
      Number(MaxNumber + 1), Keyword("KEY"), LabelId("LABEL"), RegisterId("X") }

\* The queues a HardwareRegister is made with (new_with_values).
InitialQueues ==
    { <<>>, <<Number(666)>>, <<Number(666), Number(333)>>, <<Keyword("keyword"), Number(666)>> }

RegisterInit ==
    /\ NoWorld
    /\ \E mode \in {"ReadOnly", "WriteOnly"}, values \in InitialQueues :
          LET made == HardwareRegisterNewWithValues("X", mode, values).register
          IN  subject = [basic |-> None,
                         hardware |-> made,
                         op |-> "new", arg |-> None, ok |-> TRUE, error |-> "",
                         value |-> None,
                         before |-> [basic |-> None, hardware |-> made]]

WriteBasic ==
    /\ \E value \in WrittenValues :
          LET response == BasicRegisterWrite(subject.basic, value)
          IN  subject' = [subject EXCEPT
                             !.basic = response.cell,
                             !.op = "BasicRegister::write",
                             !.arg = Some(value),
                             !.ok = response.ok,
                             !.error = response.error,
                             !.value = None,
                             !.before = [basic |-> subject.basic,
                                         hardware |-> subject.hardware]]
    /\ UNCHANGED world

WriteHardware ==
    /\ Len(subject.hardware.values) < MaxQueue
    /\ \E value \in WrittenValues :
          LET response == HardwareRegisterWrite(subject.hardware, value)
          IN  subject' = [subject EXCEPT
                             !.hardware = response.register,
                             !.op = "HardwareRegister::write",
                             !.arg = Some(value),
                             !.ok = response.ok,
                             !.error = response.error,
                             !.value = None,
                             !.before = [basic |-> subject.basic,
                                         hardware |-> subject.hardware]]
    /\ UNCHANGED world

ReadHardware ==
    /\ LET response == HardwareRegisterRead(subject.hardware)
       IN  subject' = [subject EXCEPT
                          !.op = "HardwareRegister::read",
                          !.arg = None,
                          !.ok = response.ok,
                          !.error = response.error,
                          !.value = response.value,
                          !.before = [basic |-> subject.basic,
                                      hardware |-> subject.hardware]]
    /\ UNCHANGED world

ReadMutHardware ==
    /\ LET response == HardwareRegisterReadMut(subject.hardware)
       IN  subject' = [subject EXCEPT
                          !.hardware = response.register,
                          !.op = "HardwareRegister::read_mut",
                          !.arg = None,
                          !.ok = response.ok,
                          !.error = response.error,
                          !.value = response.value,
                          !.before = [basic |-> subject.basic,
                                      hardware |-> subject.hardware]]
    /\ UNCHANGED world

RegisterNext == WriteBasic \/ WriteHardware \/ ReadHardware \/ ReadMutHardware

SpecRegister == RegisterInit /\ [][RegisterNext]_vars

(***************************************************************************)
(* C20.  A write a register rejects leaves the register as it was: a       *)
(* Number below -9999 or above 9999, a LabelId and a RegisterId written to *)
(* a BasicRegister or to a HardwareRegister give the error of their kind,  *)
(* and the stored value, or the queue, is what it was before.  Every       *)
(* Number from -9999 to 9999 and every Keyword is accepted.                *)
(***************************************************************************)
C20_RejectedWrite ==
    \A value \in WrittenValues :
        LET expected ==
                CASE value.kind = "Number" /\ value.n < -9999 -> "NumberValueTooSmall"
                  [] value.kind = "Number" /\ value.n > 9999 -> "NumberValueTooLarge"
                  [] value.kind = "LabelId" -> "WriteWithLabelId"
                  [] value.kind = "RegisterId" -> "WriteWithRegisterId"
                  [] OTHER -> ""
            basic == BasicRegisterWrite(subject.basic, value)
            hardware == HardwareRegisterWrite(subject.hardware, value)
        IN  /\ basic.error = expected
            /\ hardware.error = expected
            /\ expected # "" =>
                  /\ ~basic.ok /\ basic.cell = subject.basic
                  /\ ~hardware.ok /\ hardware.register = subject.hardware
            /\ expected = "" => basic.ok /\ hardware.ok
            /\ (subject.arg = Some(value) /\ expected # "") =>
                  /\ ~subject.ok
                  /\ subject.error = expected
                  /\ subject.basic = subject.before.basic
                  /\ subject.hardware = subject.before.hardware
            /\ (subject.arg = Some(value) /\ expected = "") =>
                  /\ subject.ok
                  /\ subject.error = ""

\* A BasicRegister that holds 9999 after the write of 10000 to it was rejected; the
\* HardwareRegister next to it holds a queue of two values.
C20_Witness ==
    /\ subject.op = "BasicRegister::write"
    /\ subject.arg = Some(Number(10000))
    /\ ~subject.ok
    /\ subject.error = "NumberValueTooLarge"
    /\ subject.before.basic = Some(Number(9999))
    /\ subject.basic = Some(Number(9999))
    /\ subject.hardware.values = <<Keyword("KEY"), Number(-9999)>>

(***************************************************************************)
(* Further instruction steps: arithmetic, TEST and the jumps.  As the      *)
(* steps above they follow the specification (§4.1, §4.6) and the unit     *)
(* tests of src/exa/mod.rs.                                                *)
(***************************************************************************)
Magnitude(n) == IF n < 0 THEN -n ELSE n

\* The quotient of two numbers, rounded towards zero, and the remainder it leaves.
Quotient(a, b) ==
    IF (a < 0) = (b < 0) THEN Magnitude(a) \div Magnitude(b)
    ELSE -(Magnitude(a) \div Magnitude(b))
Remainder(a, b) == a - b * Quotient(a, b)

\* What the instruction computes of two numbers.
ArithmeticResult(op, a, b) ==
    CASE op = "ADDI" -> a + b
      [] op = "SUBI" -> a - b
      [] op = "MULI" -> a * b
      [] op = "DIVI" -> Quotient(a, b)
      [] op = "MODI" -> Remainder(a, b)

ArithmeticWritesFirstMutant(exa, line) ==
    LET a == EvalSource(exa, line[2])
        b == EvalSource(exa, line[3])
        w == WriteDestination(exa, line[4], Number(0))
    IN  IF ~IsSome(a) \/ ~IsSome(b)
        THEN [error |-> "BadValue", carried |-> <<>>, exa |-> exa]
        ELSE IF Unwrap(a).kind # "Number" \/ Unwrap(b).kind # "Number"
        THEN [error |-> "MathWithKeywords", carried |-> <<Unwrap(a), Unwrap(b)>>,
              exa |-> w.exa]
        ELSE IF line[1] \in {"DIVI", "MODI"} /\ Unwrap(b).n = 0
        THEN [error |-> "DivideByZero", carried |-> <<Unwrap(a), Unwrap(b)>>,
              exa |-> w.exa]
        ELSE LET done == WriteDestination(exa, line[4],
                            Number(ArithmeticResult(line[1], Unwrap(a).n, Unwrap(b).n)))
             IN  IF done.ok THEN [error |-> "", carried |-> <<>>, exa |-> Advance(done.exa)]
                 ELSE [error |-> "BadValue", carried |-> <<>>, exa |-> exa]
\* ADDI, SUBI, MULI, DIVI, MODI rn rn r as a function of the agent: the error of the
\* step with the values it holds, and the agent as the step leaves it.
Arithmetic(exa, line) ==
    LET a == EvalSource(exa, line[2])
        b == EvalSource(exa, line[3])
    IN  IF ~IsSome(a) \/ ~IsSome(b)
        THEN [error |-> "BadValue", carried |-> <<>>, exa |-> exa]
        ELSE IF Unwrap(a).kind # "Number" \/ Unwrap(b).kind # "Number"
        THEN [error |-> "MathWithKeywords", carried |-> <<Unwrap(a), Unwrap(b)>>,
              exa |-> exa]
        ELSE IF line[1] \in {"DIVI", "MODI"} /\ Unwrap(b).n = 0
        THEN [error |-> "DivideByZero", carried |-> <<Unwrap(a), Unwrap(b)>>,
              exa |-> exa]
        ELSE LET w == WriteDestination(exa, line[4],
                         Number(ArithmeticResult(line[1], Unwrap(a).n, Unwrap(b).n)))
             IN  IF w.ok THEN [error |-> "", carried |-> <<>>, exa |-> Advance(w.exa)]
                 ELSE [error |-> "BadValue", carried |-> <<>>, exa |-> exa]

\* ADDI, SUBI, DIVI, MODI rn rn r
ExecuteArithmetic(e, op) ==
    /\ Fetched(e, op)
    /\ LET done == Arithmetic(exas[e], Instr(e))
       IN  IF done.error = ""
           THEN Continue(e, hosts, links, done.exa, id_generator,
                         Entry(e, exas[e].host, op, "advanced", "", ""))
           ELSE DieWith(e, op, done.error, done.carried)

\* TEST rn = rn, TEST rn < rn, TEST rn > rn: 1 or 0 to T.  Values of different kinds
\* are not equal; the order of two values that are not both numbers is left out.
ExecuteTest(e) ==
    /\ Fetched(e, "TEST")
    /\ Len(Instr(e)) = 4
    /\ LET exa == exas[e]
           a == EvalSource(exa, Instr(e)[2])
           b == EvalSource(exa, Instr(e)[4])
       IN  IF ~IsSome(a) \/ ~IsSome(b) THEN DieNow(e, "TEST", "BadValue")
           ELSE /\ Instr(e)[3] # "=" => Unwrap(a).kind = "Number" /\ Unwrap(b).kind = "Number"
                /\ LET holds == CASE Instr(e)[3] = "=" -> Unwrap(a) = Unwrap(b)
                                  [] Instr(e)[3] = "<" -> Unwrap(a).n < Unwrap(b).n
                                  [] Instr(e)[3] = ">" -> Unwrap(a).n > Unwrap(b).n
                       w == WriteDestination(exa, RegisterId("T"),
                                             Number(IF holds THEN 1 ELSE 0))
                   IN  Continue(e, hosts, links, Advance(w.exa), id_generator,
                                Entry(e, exa.host, "TEST", "advanced", "", ""))

\* JUMP l, TJMP l, FJMP l: the cursor goes to the label, for TJMP when T is not 0 and
\* for FJMP when T is 0; else it moves on by one.  A T that holds no number is left
\* out.
ExecuteJump(e, op) ==
    /\ Fetched(e, op)
    /\ LET exa == exas[e]
           t == exa.t_register
       IN  /\ op # "JUMP" => IsSome(t) /\ Unwrap(t).kind = "Number"
           /\ LET taken == \/ op = "JUMP"
                           \/ op = "TJMP" /\ Unwrap(t).n # 0
                           \/ op = "FJMP" /\ Unwrap(t).n = 0
              IN  Continue(e, hosts, links,
                           IF taken
                           THEN [exa EXCEPT !.program = JumpTo(@, Instr(e)[2]),
                                            !.state = "Running"]
                           ELSE Advance(exa),
                           id_generator,
                           Entry(e, exa.host, op, "advanced",
                                 IF taken THEN Instr(e)[2].s ELSE "", ""))

\* COPY between a hardware register of the host and a number or a register of the
\* agent: what the step reports, the agent and the hosts after it.  A register the
\* host does not have, a read the register refuses and a write it rejects end with
\* InvalidHardwareRegisterAccess(id) and change nothing.  A queue holds only values
\* a register accepts (write validates them), so the destination takes a value that
\* was read.
CopyHardware(exa, hs, line) ==
    LET registers == hs[exa.host].hardware_registers
        id == IF IsHardwareOperand(line[2]) THEN line[2].s ELSE line[3].s
        refused == [error |-> "InvalidHardwareRegisterAccess", carried |-> <<id>>,
                    exa |-> exa, hosts |-> hs]
    IN  IF id \notin DOMAIN registers THEN refused
        ELSE IF IsHardwareOperand(line[2])
        THEN LET r == HardwareRegisterReadMut(registers[id])
             IN  IF ~r.ok THEN refused
                 ELSE [error |-> "", carried |-> <<>>,
                       exa |-> Advance(WriteDestination(exa, line[3],
                                                        Unwrap(r.value)).exa),
                       hosts |-> [hs EXCEPT ![exa.host].hardware_registers[id] =
                                      r.register]]
        ELSE LET w == HardwareRegisterWrite(registers[id],
                                            Unwrap(EvalSource(exa, line[2])))
             IN  IF ~w.ok THEN refused
                 ELSE [error |-> "", carried |-> <<>>, exa |-> Advance(exa),
                       hosts |-> [hs EXCEPT ![exa.host].hardware_registers[id] =
                                      w.register]]

\* COPY #REG r and COPY rn #REG.  What a read of an empty queue does to the step is
\* not specified, and is left out.
ExecuteCopyHardware(e) ==
    /\ Fetched(e, "COPY")
    /\ \/ IsHardwareOperand(Instr(e)[2]) /\ IsBasicOperand(Instr(e)[3])
       \/ IsBasicOperand(Instr(e)[2]) /\ IsHardwareOperand(Instr(e)[3])
    /\ LET exa == exas[e]
           registers == hosts[exa.host].hardware_registers
       IN  /\ (/\ IsHardwareOperand(Instr(e)[2])
               /\ Instr(e)[2].s \in DOMAIN registers
               /\ registers[Instr(e)[2].s].mode = "ReadOnly")
                  => registers[Instr(e)[2].s].values # <<>>
           /\ LET copied == CopyHardware(exa, hosts, Instr(e))
              IN  IF copied.error = ""
                  THEN Continue(e, copied.hosts, links, copied.exa, id_generator,
                                Entry(e, exa.host, "COPY", "advanced", "", ""))
                  ELSE DieWith(e, "COPY", copied.error, copied.carried)

(***************************************************************************)
(* An agent alone: XA in host_1 with one of the sources above, stepped     *)
(* once per cycle by a driver that counts the cycles it has completed.     *)
(***************************************************************************)
\* A world in its first cycle: the agents are live and occupy their hosts.
Running(hs, xs) ==
    /\ hosts = hs
    /\ exas = xs
    /\ links = [l \in LinkIds |-> LinkNew("800", "host_2", "-1", "host_1")]
    /\ id_generator = IdGeneratorNew(IdsToAvoid)
    /\ phase = "run"
    /\ stepped = {}
    /\ dying = {}
    /\ log = <<>>
    /\ prev_dropped = {}
    /\ replicated = [x \in DOMAIN xs |-> 0]

\* The hardware register #NERV the host of the agent may have.
NervRegisters ==
    { HardwareRegisterNewWithValues("#NERV", mode, values).register :
        mode \in {"ReadOnly", "WriteOnly"}, values \in InitialQueues }

\* host_1 and host_2 with the link between them; host_1 with the register, if one
\* is given, and then the agent XA.
AloneHosts(limit, register) ==
    [h \in HostIds |->
        IF h = "host_1"
        THEN LET linked == InsertLink(HostNew(h, limit), "800", "link")
             IN  InsertExaId(IF IsSome(register)
                             THEN InsertHardwareRegister(linked, Unwrap(register))
                             ELSE linked, "XA")
        ELSE InsertLink(HostNew(h, limit), "-1", "link")]

\* The text of three of the sources, word by word.
SourceWords ==
    [ hardware_large |->
        << << <<"C", "O", "P", "Y">>, <<"1", "0", "0", "0", "0">>,
              <<"#", "N", "E", "R", "V">> >> >>,
      large |->
        << << <<"C", "O", "P", "Y">>, <<"7">>, <<"X">> >>,
           << <<"C", "O", "P", "Y">>, <<"1", "0", "0", "0", "0">>, <<"X">> >> >>,
      small |->
        << << <<"C", "O", "P", "Y">>, <<"-", "9", "9", "9", "9">>, <<"T">> >>,
           << <<"C", "O", "P", "Y">>, <<"-", "1", "0", "0", "0", "0">>, <<"T">> >> >> ]

\* The lines Instruction::parse_rn_r makes of the text of a source, in front of the
\* HALT that ends it.
ParsedSource(name) ==
    [i \in 1..Len(SourceWords[name]) |-> ParseRnR(SourceWords[name][i])] \o << <<"HALT">> >>

AloneInit ==
    /\ \E limit \in 1..MaxOccupancy, name \in DOMAIN AloneSources \cup DOMAIN KeywordSources,
          register \in {None} \cup {Some(r) : r \in NervRegisters} :
          /\ Len(register) < limit
          /\ name \in DOMAIN SourceWords => ParsedSource(name) = AllSources[name]
          /\ Running(AloneHosts(limit, register),
                     MapInsert(EmptyMap, "XA", ExaNew("XA", ProgramStart(name), "host_1")))
    /\ subject = 0

\* End of a cycle the driver counts.
EndCountedCycle == EndOfCycle /\ subject' = subject + 1

AloneNext ==
    \/ StepOutOfInstructions
    \/ StepCopy
    \/ \E e \in DOMAIN exas : ExecuteCopyHardware(e)
    \/ StepMultiply
    \/ StepHalt
    \/ StepMake
    \/ StepFile
    \/ \E e \in DOMAIN exas : ExecuteArithmetic(e, "ADDI")
    \/ \E e \in DOMAIN exas : ExecuteArithmetic(e, "SUBI")
    \/ \E e \in DOMAIN exas : ExecuteArithmetic(e, "DIVI")
    \/ \E e \in DOMAIN exas : ExecuteArithmetic(e, "MODI")
    \/ \E e \in DOMAIN exas : ExecuteTest(e)
    \/ \E e \in DOMAIN exas : ExecuteJump(e, "JUMP")
    \/ \E e \in DOMAIN exas : ExecuteJump(e, "TJMP")
    \/ \E e \in DOMAIN exas : ExecuteJump(e, "FJMP")
    \/ EndCountedCycle

SpecAlone == AloneInit /\ [][AloneNext]_vars

(***************************************************************************)
(* KILL, and a world of three agents that kill, halt, divide by zero or    *)
(* run out of instructions.                                                *)
(***************************************************************************)
\* KILL: one of the other agents that occupy the host is chosen and dies when the
\* cycle ends; the step reports Kill(id) and the killer moves on.  Without another
\* agent in the host nothing happens.
KillCandidatesWithSelfMutant(h, e) == h.occupying_exa_ids

\* The agents a KILL of e in the host h chooses from: the occupants but e.
\* (Host::remove_random_occupying_exa_id chooses among all the ids of the set and
\* removes the chosen one at once; the step that would use it has no body.)
KillCandidates(h, e) == h.occupying_exa_ids \ {e}

ExecuteKill(e) ==
    /\ Fetched(e, "KILL")
    /\ LET exa == exas[e]
           others == KillCandidates(hosts[exa.host], e)
       IN  IF others = {}
           THEN Continue(e, hosts, links, Advance(exa), id_generator,
                         Entry(e, exa.host, "KILL", "advanced", "", ""))
           ELSE \E victim \in others :
                   /\ hosts' = hosts /\ links' = links /\ id_generator' = id_generator
                   /\ exas' = [exas EXCEPT ![e] = Advance(exa)]
                   /\ stepped' = stepped \cup {e}
                   /\ dying' = dying \cup {victim}
                   /\ log' = Append(log, Entry(e, exa.host, "KILL", "advanced", "Kill", victim))
                   /\ UNCHANGED <<phase, prev_dropped, replicated, subject>>

\* Two hosts with the link between them and room for every agent.
LinkedHosts ==
    [h \in HostIds |->
        IF h = "host_1" THEN InsertLink(HostNew(h, MaxOccupancy), "800", "link")
        ELSE InsertLink(HostNew(h, MaxOccupancy), "-1", "link")]

\* The agents, each made by Exa::new with its program and inserted in its host.
Populated(hs, host_of, program_of) ==
    [hosts |-> [h \in DOMAIN hs |->
                  [hs[h] EXCEPT !.occupying_exa_ids =
                      @ \cup {x \in DOMAIN host_of : host_of[x] = h}]],
     exas |-> [x \in DOMAIN host_of |-> ExaNew(x, ProgramStart(program_of[x]), host_of[x])]]

KillInit ==
    /\ \E host_of \in [{"XA", "XB", "XC"} -> HostIds],
          program_of \in [{"XA", "XB", "XC"} -> DOMAIN KillSources \cup {"modulo"}] :
          /\ host_of["XA"] = "host_1"
          /\ Running(Populated(LinkedHosts, host_of, program_of).hosts,
                     Populated(LinkedHosts, host_of, program_of).exas)
    /\ subject = None

KillNext ==
    \/ StepOutOfInstructions
    \/ StepNoOp
    \/ StepCopy
    \/ StepHalt
    \/ \E e \in DOMAIN exas : ExecuteArithmetic(e, "MODI")
    \/ \E e \in DOMAIN exas : ExecuteKill(e)
    \/ EndCycle

SpecKill == KillInit /\ [][KillNext]_vars

(***************************************************************************)
(* C21.  Arithmetic deaths leave the agent as it was.  DIVI and MODI with  *)
(* a divisor of 0 end with DivideByZero, and ADDI, SUBI, MULI, DIVI and    *)
(* MODI with a Keyword operand end with MathWithKeywords, which holds the  *)
(* two operand values.  In both cases the destination register and the     *)
(* other registers of the agent hold what they held before the step, and   *)
(* the agent is removed in this cycle: it is no longer live and no longer  *)
(* occupies its host when the step is over.                                *)
(***************************************************************************)
C21_ArithmeticDeaths ==
    [][\A e \in DOMAIN exas : \A op \in {"ADDI", "SUBI", "MULI", "DIVI", "MODI"} :
          Steps(e, op) =>
             LET a == Unwrap(EvalSource(exas[e], Instr(e)[2]))
                 b == Unwrap(EvalSource(exas[e], Instr(e)[3]))
                 left == Arithmetic(exas[e], Instr(e)).exa
                 reason ==
                     IF "Keyword" \in {a.kind, b.kind} THEN "MathWithKeywords"
                     ELSE IF op \in {"DIVI", "MODI"} /\ b.n = 0 THEN "DivideByZero"
                     ELSE ""
             IN  reason # "" =>
                    /\ Outcome.exa = e /\ Outcome.op = op
                    /\ Outcome.result = "died"
                    /\ Outcome.arg = reason
                    /\ Outcome.carried = <<a, b>>
                    /\ left.x_register = exas[e].x_register
                    /\ left.t_register = exas[e].t_register
                    /\ left = exas[e]
                    /\ e \notin DOMAIN exas'
                    /\ ~HasOccupyingExaId(hosts'[exas[e].host], e)
                    /\ e \notin dying']_vars

\* The agent of boundary B2 is gone: its DIVI T X T met X = 0 while T held 7, in the
\* fifth cycle.
C21_Witness ==
    /\ log # <<>>
    /\ log[Len(log)].op = "DIVI"
    /\ log[Len(log)].result = "died"
    /\ log[Len(log)].arg = "DivideByZero"
    /\ log[Len(log)].carried = <<Number(7), Number(0)>>
    /\ "XA" \notin DOMAIN exas
    /\ ~HasOccupyingExaId(hosts["host_1"], "XA")
    /\ subject = 4

Condemned ==
    {log[i].exa : i \in {j \in Positions : log[j].arg = "OutOfInstructions"}}
    \cup {log[i].dest : i \in {j \in Positions : Is(j, "KILL", "advanced") /\ log[j].arg = "Kill"}}

\* The agents whose own step ended with their removal in this cycle.
Removed == {log[i].exa : i \in {j \in Positions : log[j].result = "died"
                                                   /\ log[j].arg # "OutOfInstructions"}}

C30_BlockedLink ==
    [][\A e \in DOMAIN exas :
          (Steps(e, "LINK") /\ HasLink(hosts[exas[e].host], Operand(e))) =>
              LET h == exas[e].host
                  gate_id == Operand(e)
                  link_id == hosts[h].links[gate_id]
                  to == Behind(h, gate_id)
              IN  (links[link_id].occupied \/ Full(hosts[to])) =>
                     /\ Outcome.result = "blocked"
                     /\ links'[link_id].occupied = links[link_id].occupied
                     /\ links' = links
                     /\ hosts' = hosts
                     /\ HasOccupyingExaId(hosts'[h], e)
                     /\ to # h => ~HasOccupyingExaId(hosts'[to], e)
                     /\ e \in DOMAIN exas'
                     /\ Cursor(exas'[e]) = Cursor(exas[e])
                     /\ exas'[e].state = "WaitingForLinkToOpen"
                     /\ exas' = [exas EXCEPT ![e].state = "WaitingForLinkToOpen"]
                     /\ id_generator' = id_generator
      ]_vars

\* The last step of the cycle was a LINK that was refused because the host behind
\* the gate is full: the link is still free, and the agent waits in the host it
\* was in, with its cursor on the LINK.
C30_Witness ==
    /\ log # <<>>
    /\ Is(Len(log), "LINK", "blocked")
    /\ \A l \in LinkIds : ~links[l].occupied
    /\ LET e == log[Len(log)].exa
           h == log[Len(log)].host
       IN  /\ e \in DOMAIN exas
           /\ exas[e].host = h
           /\ exas[e].state = "WaitingForLinkToOpen"
           /\ HasOccupyingExaId(hosts[h], e)
           /\ Full(hosts[Behind(h, log[Len(log)].arg)])
           /\ ~HasOccupyingExaId(hosts[Behind(h, log[Len(log)].arg)], e)
           /\ IsSome(PeakCurrentInstruction(exas[e].program))
           /\ Unwrap(PeakCurrentInstruction(exas[e].program))[2][1] = "LINK"

(***************************************************************************)
(* Hardware registers of the hosts of a world.                             *)
(***************************************************************************)
\* The hardware registers of all hosts that have the given access mode.
RegistersOf(mode) ==
    {register \in UNION {{hosts[h].hardware_registers[id] :
                             id \in DOMAIN hosts[h].hardware_registers} : h \in HostIds} :
        register.mode = mode}

\* The hardware register a COPY names is a register of the host of the agent and
\* has the given access mode; at is the place of the operand in the instruction.
Names(e, at, mode) ==
    /\ IsHardwareOperand(Instr(e)[at])
    /\ Instr(e)[at].s \in DOMAIN hosts[exas[e].host].hardware_registers
    /\ hosts[exas[e].host].hardware_registers[Instr(e)[at].s].mode = mode

(***************************************************************************)
(* C27.  A write of a valid value to a ReadOnly hardware register succeeds *)
(* and changes nothing: write returns Ok and the queue is exactly what it  *)
(* was, and COPY v #REG to a ReadOnly register is a successful step of the *)
(* agent, which moves on while the hosts stay as they were.  A value that  *)
(* is not valid (a Number below -9999 or above 9999, a LabelId, a          *)
(* RegisterId) is rejected by the ReadOnly register with the error a       *)
(* BasicRegister gives for it.                                             *)
(***************************************************************************)
C27_ReadOnlyWrite ==
    /\ [](\A register \in RegistersOf("ReadOnly") : \A value \in WrittenValues :
             LET hardware == HardwareRegisterWrite(register, value)
                 basic == BasicRegisterWrite(None, value)
                 valid == \/ value.kind = "Keyword"
                          \/ value.kind = "Number" /\ value.n \in -9999..9999
             IN  /\ hardware.register = register
                 /\ hardware.ok = valid
                 /\ valid => hardware.error = ""
                 /\ ~valid => (~basic.ok /\ hardware.error = basic.error
                                         /\ hardware.error # ""))
    /\ [][\A e \in DOMAIN exas :
             (/\ Steps(e, "COPY")
              /\ Names(e, 3, "ReadOnly")
              /\ IsSome(EvalSource(exas[e], Instr(e)[2]))
              /\ Unwrap(EvalSource(exas[e], Instr(e)[2])).kind \in {"Number", "Keyword"}
              /\ Unwrap(EvalSource(exas[e], Instr(e)[2])).kind = "Number" =>
                     Unwrap(EvalSource(exas[e], Instr(e)[2])).n \in -9999..9999) =>
                /\ Outcome.result = "advanced"
                /\ hosts' = hosts
                /\ exas' = [exas EXCEPT ![e].program.stack_index = @ + 1,
                                        ![e].state = "Running"]]_vars

\* The agent has executed COPY 666 #NERV in a host whose #NERV is ReadOnly and
\* holds 666 and 333: the step advanced it, and the queue is what it was.
C27_Witness ==
    /\ "XA" \in DOMAIN exas
    /\ exas["XA"].program.name = "hardware"
    /\ Cursor(exas["XA"]) = 2
    /\ log # <<>> /\ Is(Len(log), "COPY", "advanced")
    /\ "#NERV" \in DOMAIN hosts["host_1"].hardware_registers
    /\ hosts["host_1"].hardware_registers["#NERV"] =
          HardwareRegisterNewWithValues("#NERV", "ReadOnly",
                                        <<Number(666), Number(333)>>).register

(***************************************************************************)
(* C28.  A read of a WriteOnly hardware register is an error that consumes *)
(* nothing: read and read_mut return InvalidReadAccess and the queue is    *)
(* what it was.  A step that uses a WriteOnly register as its source       *)
(* (COPY #REG X) ends with InvalidHardwareRegisterAccess, which holds the  *)
(* id of the register; the destination register of the agent and the queue *)
(* of the register hold what they held.                                    *)
(***************************************************************************)
C28_WriteOnlyRead ==
    /\ [](\A register \in RegistersOf("WriteOnly") :
             /\ ~HardwareRegisterRead(register).ok
             /\ HardwareRegisterRead(register).error = "InvalidReadAccess"
             /\ HardwareRegisterRead(register).value = None
             /\ ~HardwareRegisterReadMut(register).ok
             /\ HardwareRegisterReadMut(register).error = "InvalidReadAccess"
             /\ HardwareRegisterReadMut(register).value = None
             /\ HardwareRegisterReadMut(register).register = register)
    /\ [][\A e \in DOMAIN exas :
             (Steps(e, "COPY") /\ Names(e, 2, "WriteOnly")) =>
                /\ Outcome.result = "died"
                /\ Outcome.arg = "InvalidHardwareRegisterAccess"
                /\ Outcome.carried = <<Instr(e)[2].s>>
                /\ CopyHardware(exas[e], hosts, Instr(e)).exa = exas[e]
                /\ \A h \in HostIds :
                      hosts'[h].hardware_registers = hosts[h].hardware_registers
                /\ e \notin DOMAIN exas']_vars

\* The agent wrote 666 to the WriteOnly #NERV of its host, behind the 666 and 333
\* the register was made with, and its COPY #NERV X then ended with
\* InvalidHardwareRegisterAccess(#NERV): the queue still holds the three values.
C28_Witness ==
    /\ log # <<>> /\ Is(Len(log), "COPY", "died")
    /\ log[Len(log)].arg = "InvalidHardwareRegisterAccess"
    /\ log[Len(log)].carried = <<"#NERV">>
    /\ "#NERV" \in DOMAIN hosts["host_1"].hardware_registers
    /\ hosts["host_1"].hardware_registers["#NERV"] =
          HardwareRegisterNewWithValues("#NERV", "WriteOnly",
                                        <<Number(666), Number(333), Number(666)>>).register
    /\ exas = EmptyMap

(***************************************************************************)
(* C29.  The range of a Number is enforced when it is written, not when it *)
(* is parsed.  A word that spells an integer outside -9999..9999 parses to *)
(* the Number it spells, and a line such as COPY 10000 X is accepted by    *)
(* Program::new; the violation surfaces when the step writes the value to  *)
(* a register: the register rejects it and holds what it held, and the     *)
(* step ends the agent.                                                    *)
(***************************************************************************)
\* Words that spell integers, in and out of the range of a register.
NumberWords ==
    { [word |-> <<"9", "9", "9", "9">>, n |-> 9999],
      [word |-> <<"1", "0", "0", "0", "0">>, n |-> 10000],
      [word |-> <<"-", "9", "9", "9", "9">>, n |-> -9999],
      [word |-> <<"-", "1", "0", "0", "0", "0">>, n |-> -10000],
      [word |-> <<"+", "7">>, n |-> 7] }

C29_RangeAtWrite ==
    /\ [](/\ \A w \in NumberWords :
                NewNumberOrRegisterId(w.word) = Some(Number(w.n))
          /\ \A e \in DOMAIN exas :
                /\ Programs[exas[e].program.name].ok
                /\ \A i \in 1..Len(AllSources[exas[e].program.name]) :
                      AllSources[exas[e].program.name][i][1] # "!"
                /\ exas[e].program.name \in DOMAIN SourceWords =>
                      ParsedSource(exas[e].program.name) = AllSources[exas[e].program.name]
          /\ Programs["large"].instructions[2] =
                <<1, <<"COPY", Number(10000), RegisterId("X")>> >>)
    /\ [][\A e \in DOMAIN exas :
             (/\ Steps(e, "COPY")
              /\ Instr(e)[2].kind = "Number"
              /\ Instr(e)[2].n \notin -9999..9999) =>
                /\ Outcome.result = "died"
                /\ e \notin DOMAIN exas'
                /\ \A h \in HostIds :
                      hosts'[h].hardware_registers = hosts[h].hardware_registers
                /\ IsBasicOperand(Instr(e)[3]) =>
                      /\ Outcome.arg = "BadValue"
                      /\ WriteDestination(exas[e], Instr(e)[3], Instr(e)[2]) =
                            [ok |-> FALSE, exa |-> exas[e]]]_vars

\* The agent of COPY 7 X; COPY 10000 X was made, ran its first COPY in the first
\* cycle, and its second COPY ended it in the second.
C29_Witness ==
    /\ subject = 1
    /\ log = <<Entry("XA", "host_1", "COPY", "died", "BadValue", "")>>
    /\ exas = EmptyMap
    /\ Programs["large"].ok

(***************************************************************************)
(* The M register (§4.5): a rendezvous of depth one.  A write that finds   *)
(* no reader is pending while its writer waits on its COPY to M in state   *)
(* WaitingForMWrite, and a read that finds no write is pending while its   *)
(* reader waits on its COPY from M in state WaitingForMRead.  The world of *)
(* the agents that use it has three agents, which the driver steps in the  *)
(* same order in every cycle; `subject` is that order.                     *)
(***************************************************************************)
\* MODE: from Global to Local and back.
ExecuteMode(e) ==
    /\ Fetched(e, "MODE")
    /\ Continue(e, hosts, links,
                Advance([exas[e] EXCEPT !.communication_mode =
                            IF @ = "Global" THEN "Local" ELSE "Global"]),
                id_generator, Entry(e, exas[e].host, "MODE", "advanced", "", ""))

CompatibleAcrossHostsMutant(a, b) == a.communication_mode = b.communication_mode
\* Two agents can meet over M: they have the same communication mode, and in Local
\* mode they are in the same host.
Compatible(a, b) ==
    /\ a.communication_mode = b.communication_mode
    /\ a.communication_mode = "Local" => a.host = b.host

\* The place of an agent in the order of the driver.
Place(e) == CHOOSE i \in 1..Len(subject) : subject[i] = e

LastInOrderMutant(ids) == CHOOSE e \in ids : \A other \in ids : Place(other) <= Place(e)
\* Of several agents, the one the driver steps first.
FirstInOrder(ids) == CHOOSE e \in ids : \A other \in ids : Place(e) <= Place(other)

\* The agents other than e that wait in the given state and are compatible with e.
Waiting(e, state) ==
    {p \in DOMAIN exas \ {e} : exas[p].state = state /\ Compatible(exas[e], exas[p])}

\* The instruction a waiting agent waits on.
WaitsOn(p) == Unwrap(PeakCurrentInstruction(exas[p].program))[2]

\* COPY rn M: the value goes to the first reader that waits for it, and both move
\* on; without a reader the agent waits.
ExecuteCopyToM(e) ==
    /\ Fetched(e, "COPY")
    /\ IsBasicOperand(Instr(e)[2])
    /\ Instr(e)[3] = RegisterId("M")
    /\ LET exa == exas[e]
           value == Unwrap(EvalSource(exa, Instr(e)[2]))
           readers == Waiting(e, "WaitingForMRead")
       IN  IF readers = {}
           THEN Continue(e, hosts, links, Block(exa, "WaitingForMWrite"), id_generator,
                         Entry(e, exa.host, "COPY", "blocked", "M", ""))
           ELSE LET reader == FirstInOrder(readers)
                    taken == WriteDestination(exas[reader], WaitsOn(reader)[3], value).exa
                IN  Commit(e, hosts, links,
                           [exas EXCEPT ![e] = Advance(exa), ![reader] = Advance(taken)],
                           id_generator, {},
                           [Entry(e, exa.host, "COPY", "advanced", "M", reader)
                               EXCEPT !.carried = <<value>>])

\* COPY M r: the value of the first writer that waits goes to the destination, and
\* both move on; without a writer the agent waits.
ExecuteCopyFromM(e) ==
    /\ Fetched(e, "COPY")
    /\ Instr(e)[2] = RegisterId("M")
    /\ IsBasicOperand(Instr(e)[3])
    /\ LET exa == exas[e]
           writers == Waiting(e, "WaitingForMWrite")
       IN  IF writers = {}
           THEN Continue(e, hosts, links, Block(exa, "WaitingForMRead"), id_generator,
                         Entry(e, exa.host, "COPY", "blocked", "M", ""))
           ELSE LET writer == FirstInOrder(writers)
                    value == Unwrap(EvalSource(exas[writer], WaitsOn(writer)[2]))
                    taken == WriteDestination(exa, Instr(e)[3], value).exa
                IN  Commit(e, hosts, links,
                           [exas EXCEPT ![e] = Advance(taken),
                                        ![writer] = Advance(exas[writer])],
                           id_generator, {},
                           [Entry(e, exa.host, "COPY", "advanced", "M", writer)
                               EXCEPT !.carried = <<value>>])

\* The orders in which a driver may step the three agents.
DriverOrders ==
    {order \in [1..3 -> {"XA", "XB", "XC"}] :
        \A i, j \in 1..3 : order[i] = order[j] => i = j}

\* The agent the driver steps next in this cycle.
Turn(e) ==
    /\ Ready(e)
    /\ \A other \in DOMAIN exas : Ready(other) => Place(e) <= Place(other)

BusInit ==
    /\ \E host_of \in [{"XA", "XB", "XC"} -> HostIds],
          program_of \in [{"XA", "XB", "XC"} -> DOMAIN BusSources] :
          /\ host_of["XA"] = "host_1"
          /\ Running(Populated(LinkedHosts, host_of, program_of).hosts,
                     Populated(LinkedHosts, host_of, program_of).exas)
    /\ subject \in DriverOrders

BusNext ==
    \/ \E e \in DOMAIN exas : Turn(e) /\ ExecuteOutOfInstructions(e)
    \/ \E e \in DOMAIN exas : Turn(e) /\ ExecuteMode(e)
    \/ \E e \in DOMAIN exas : Turn(e) /\ ExecuteCopyToM(e)
    \/ \E e \in DOMAIN exas : Turn(e) /\ ExecuteCopyFromM(e)
    \/ EndCycle

SpecBus == BusInit /\ [][BusNext]_vars

\* The agent after the instruction it waited on or executed took the value: the
\* destination register holds it, the cursor is past the instruction.
Received(exa, dest, value) ==
    IF dest.s = "X"
    THEN [exa EXCEPT !.x_register = Some(value), !.program.stack_index = @ + 1,
                     !.state = "Running"]
    ELSE [exa EXCEPT !.t_register = Some(value), !.program.stack_index = @ + 1,
                     !.state = "Running"]

\* The agent after the instruction it waited on or executed gave its value away.
Delivered(exa) == [exa EXCEPT !.program.stack_index = @ + 1, !.state = "Running"]

\* The value a writer offers with the COPY to M under its cursor.
Offered(w) == Unwrap(EvalSource(exas[w], WaitsOn(w)[2]))

(***************************************************************************)
(* C25.  M is a rendezvous of depth one.  An agent that writes M while no  *)
(* compatible reader waits does not advance and gets the state             *)
(* WaitingForMWrite; an agent that reads M while no compatible write is    *)
(* pending does not advance and gets the state WaitingForMRead.  A value   *)
(* goes to exactly one reader: the step that delivers it changes one       *)
(* reader and moves the writer past its COPY, so that the value is not     *)
(* offered again, and a pending write stays pending, with its writer live, *)
(* until that happens.  Of several writers, or readers, that are eligible, *)
(* the one that is first in the order of the driver is matched.  A         *)
(* compatible writer and reader never wait at the same time.               *)
(***************************************************************************)
C25_Rendezvous ==
    /\ [](\A w \in DOMAIN exas : \A r \in DOMAIN exas :
             (exas[w].state = "WaitingForMWrite" /\ exas[r].state = "WaitingForMRead")
                => ~Compatible(exas[w], exas[r]))
    /\ [][/\ \A e \in DOMAIN exas :
                (Steps(e, "COPY") /\ Instr(e)[3] = RegisterId("M")) =>
                   LET readers == Waiting(e, "WaitingForMRead")
                   IN  /\ readers = {} =>
                             /\ Outcome.result = "blocked"
                             /\ exas' = [exas EXCEPT ![e].state = "WaitingForMWrite"]
                       /\ readers # {} =>
                             \E r \in readers :
                                /\ \A other \in readers : Place(r) <= Place(other)
                                /\ Outcome.result = "advanced"
                                /\ Outcome.dest = r
                                /\ Outcome.carried = <<Offered(e)>>
                                /\ exas' = [exas EXCEPT
                                              ![e] = Delivered(@),
                                              ![r] = Received(@, WaitsOn(r)[3], Offered(e))]
          /\ \A e \in DOMAIN exas :
                (Steps(e, "COPY") /\ Instr(e)[2] = RegisterId("M")) =>
                   LET writers == Waiting(e, "WaitingForMWrite")
                   IN  /\ writers = {} =>
                             /\ Outcome.result = "blocked"
                             /\ exas' = [exas EXCEPT ![e].state = "WaitingForMRead"]
                       /\ writers # {} =>
                             \E w \in writers :
                                /\ \A other \in writers : Place(w) <= Place(other)
                                /\ Outcome.result = "advanced"
                                /\ Outcome.dest = w
                                /\ Outcome.carried = <<Offered(w)>>
                                /\ exas' = [exas EXCEPT
                                              ![w] = Delivered(@),
                                              ![e] = Received(@, Instr(e)[3], Offered(w))]
          /\ \A w \in DOMAIN exas :
                exas[w].state = "WaitingForMWrite" =>
                   /\ w \in DOMAIN exas'
                   /\ \/ exas'[w] = exas[w]
                      \/ /\ exas'[w] = Delivered(exas[w])
                         /\ \E r \in DOMAIN exas \ {w} :
                               /\ Steps(r, "COPY")
                               /\ Instr(r)[2] = RegisterId("M")
                               /\ Outcome.exa = r /\ Outcome.dest = w
                               /\ exas'[r] = Received(exas[r], Instr(r)[3], Offered(w))
                               /\ \A x \in DOMAIN exas \ {w, r} : exas'[x] = exas[x]
      ]_vars

\* The driver steps XB, then XA, then XC.  XA and XB both wait with a write of 5,
\* and the read of XC has taken the value of XB: XB is past its COPY, XA still
\* waits on its own.
C25_Witness ==
    /\ subject = <<"XB", "XA", "XC">>
    /\ log # <<>>
    /\ log[Len(log)] = [Entry("XC", exas["XC"].host, "COPY", "advanced", "M", "XB")
                           EXCEPT !.carried = <<Number(5)>>]
    /\ exas["XC"].x_register = Some(Number(5))
    /\ Cursor(exas["XC"]) = 1
    /\ Cursor(exas["XB"]) = 1 /\ exas["XB"].state = "Running"
    /\ Cursor(exas["XA"]) = 0 /\ exas["XA"].state = "WaitingForMWrite"
    /\ exas["XA"].program.name = "send"

(***************************************************************************)
(* C26.  Compatibility over M.  A value written to M by an agent in Global *)
(* mode is never read by an agent in Local mode, and a value written in    *)
(* Local mode never by an agent in Global mode; a value written in Local   *)
(* mode is read only by an agent that is in the host of the writer when it *)
(* reads.  The value that arrives is the one the writer offered, and no    *)
(* register of any other agent changes in a step on M.                     *)
(***************************************************************************)
C26_Compatibility ==
    [][\A e \in DOMAIN exas :
          (/\ Steps(e, "COPY")
           /\ RegisterId("M") \in {Instr(e)[2], Instr(e)[3]}) =>
             /\ Outcome.result \in {"advanced", "blocked"}
             /\ Outcome.result = "blocked" =>
                   \A x \in DOMAIN exas :
                      /\ exas'[x].x_register = exas[x].x_register
                      /\ exas'[x].t_register = exas[x].t_register
             /\ Outcome.result = "advanced" =>
                   LET writer == IF Instr(e)[3] = RegisterId("M") THEN e ELSE Outcome.dest
                       reader == IF Instr(e)[3] = RegisterId("M") THEN Outcome.dest ELSE e
                   IN  /\ {writer, reader} \subseteq DOMAIN exas
                       /\ writer # reader
                       /\ exas[writer].communication_mode = exas[reader].communication_mode
                       /\ exas[writer].communication_mode = "Local" =>
                             /\ exas[writer].host = exas[reader].host
                             /\ HasOccupyingExaId(hosts[exas[writer].host], reader)
                       /\ exas'[reader] =
                             Received(exas[reader], WaitsOn(reader)[3], Offered(writer))
                       /\ \A x \in DOMAIN exas \ {reader} :
                             /\ exas'[x].x_register = exas[x].x_register
                             /\ exas'[x].t_register = exas[x].t_register
      ]_vars

\* XA in host_1 wrote 7 in Local mode and XC, in Local mode in the same host, has
\* read it, while XB, in Local mode in host_2, still waits for a value.
C26_Witness ==
    /\ log # <<>>
    /\ Is(Len(log), "COPY", "advanced")
    /\ log[Len(log)].carried = <<Number(7)>>
    /\ {log[Len(log)].exa, log[Len(log)].dest} = {"XA", "XC"}
    /\ exas["XA"].host = "host_1" /\ exas["XC"].host = "host_1"
    /\ exas["XA"].program.name = "send_local"
    /\ exas["XC"].communication_mode = "Local"
    /\ exas["XC"].x_register = Some(Number(7))
    /\ exas["XB"].host = "host_2"
    /\ exas["XB"].communication_mode = "Local"
    /\ exas["XB"].state = "WaitingForMRead"
    /\ exas["XB"].x_register = Some(Number(0))

ReadF(file) == [value |-> FileCurrent(file), file |-> FileAdjustIndex(file, 1)]

\* A write of F: the value replaces the one at the cursor, or is appended at EOF, and
\* the cursor moves on by one.
WriteF(file, with) == FileAdjustIndex(FileReplaceCurrent(file, with), 1)

\* COPY F r: without a file, or at EOF, InvalidFRegisterAccess.
ExecuteCopyFromF(e) ==
    /\ Fetched(e, "COPY")
    /\ Instr(e)[2] = RegisterId("F")
    /\ IsBasicOperand(Instr(e)[3])
    /\ LET exa == exas[e]
       IN  IF ~IsSome(exa.file) THEN DieNow(e, "COPY", "InvalidFRegisterAccess")
           ELSE IF ~IsSome(FileCurrent(Unwrap(exa.file)))
           THEN DieNow(e, "COPY", "InvalidFRegisterAccess")
           ELSE LET r == ReadF(Unwrap(exa.file))
                    w == WriteDestination([exa EXCEPT !.file = Some(r.file)], Instr(e)[3],
                                          Unwrap(r.value))
                IN  Continue(e, hosts, links, Advance(w.exa), id_generator,
                             [Entry(e, exa.host, "COPY", "advanced", "F", "")
                                 EXCEPT !.carried = <<Unwrap(r.value)>>])

\* COPY rn F: without a file InvalidFRegisterAccess.  A file holds MaxContents
\* values at most.
ExecuteCopyToF(e) ==
    /\ Fetched(e, "COPY")
    /\ IsBasicOperand(Instr(e)[2])
    /\ Instr(e)[3] = RegisterId("F")
    /\ IsSome(EvalSource(exas[e], Instr(e)[2]))
    /\ LET exa == exas[e]
           value == Unwrap(EvalSource(exa, Instr(e)[2]))
       IN  IF ~IsSome(exa.file) THEN DieNow(e, "COPY", "InvalidFRegisterAccess")
           ELSE /\ FileIsEof(Unwrap(exa.file)) => FileLen(Unwrap(exa.file)) < MaxContents
                /\ Continue(e, hosts, links,
                            Advance([exa EXCEPT !.file = Some(WriteF(Unwrap(@), value))]),
                            id_generator,
                            [Entry(e, exa.host, "COPY", "advanced", "", "F")
                                EXCEPT !.carried = <<value>>])

\* VOID F, of an agent that holds a file.
ExecuteVoidF(e) ==
    /\ Fetched(e, "VOID")
    /\ Instr(e)[2] = "F"
    /\ IsSome(exas[e].file)
    /\ Continue(e, hosts, links,
                Advance([exas[e] EXCEPT !.file = Some(FileRemoveCurrent(Unwrap(@)))]),
                id_generator, Entry(e, exas[e].host, "VOID", "advanced", "F", ""))

\* SEEK rn with a number, of an agent that holds a file.
ExecuteSeek(e) ==
    /\ Fetched(e, "SEEK")
    /\ IsBasicOperand(Instr(e)[2])
    /\ IsSome(exas[e].file)
    /\ IsSome(EvalSource(exas[e], Instr(e)[2]))
    /\ Unwrap(EvalSource(exas[e], Instr(e)[2])).kind = "Number"
    /\ Continue(e, hosts, links,
                Advance([exas[e] EXCEPT !.file =
                    Some(FileAdjustIndex(Unwrap(@),
                                         Unwrap(EvalSource(exas[e], Instr(e)[2])).n))]),
                id_generator, Entry(e, exas[e].host, "SEEK", "advanced", "", ""))

\* TEST EOF: 1 to T when the cursor of the held file is at EOF, else 0; without a
\* file InvalidFRegisterAccess.
ExecuteTestEof(e) ==
    /\ Fetched(e, "TEST")
    /\ Instr(e) = <<"TEST", "EOF">>
    /\ LET exa == exas[e]
       IN  IF ~IsSome(exa.file) THEN DieNow(e, "TEST", "InvalidFRegisterAccess")
           ELSE Continue(e, hosts, links,
                         Advance(WriteDestination(exa, RegisterId("T"),
                             Number(IF FileIsEof(Unwrap(exa.file)) THEN 1 ELSE 0)).exa),
                         id_generator, Entry(e, exa.host, "TEST", "advanced", "EOF", ""))

\* The values of the file 200 of the tests of src/exa/mod.rs.
TestContents ==
    <<Keyword("keyword1"), Number(666), Keyword("keyword2"), Number(333),
      Keyword("keyword3")>>

\* The file 200 with the first values of the tests, MaxContents at most.
WindowFiles ==
    { [FileNew("200") EXCEPT !.contents = SubSeq(TestContents, 1, n)] :
        n \in 0..Min(MaxContents, Len(TestContents)) }

WindowInit ==
    /\ \E name \in DOMAIN WindowSources, file \in WindowFiles :
          Running([AloneHosts(3, None) EXCEPT !["host_1"] = InsertFile(@, file)],
                  MapInsert(EmptyMap, "XA", ExaNew("XA", ProgramStart(name), "host_1")))
    /\ subject = None

WindowNext ==
    \/ StepOutOfInstructions
    \/ StepMake
    \/ StepGrab
    \/ \E e \in DOMAIN exas : ExecuteCopyFromF(e)
    \/ \E e \in DOMAIN exas : ExecuteCopyToF(e)
    \/ \E e \in DOMAIN exas : ExecuteVoidF(e)
    \/ \E e \in DOMAIN exas : ExecuteSeek(e)
    \/ \E e \in DOMAIN exas : ExecuteTestEof(e)
    \/ EndCycle

SpecWindow == WindowInit /\ [][WindowNext]_vars

\* The file the agent holds, before and after a step.
Held(e) == Unwrap(exas[e].file)
HeldAfter(e) == Unwrap(exas'[e].file)

(***************************************************************************)
(* C32.  A write through F moves the cursor on.  With a held file of       *)
(* length len and the cursor at i, COPY v F with i < len replaces the      *)
(* value at i, keeps the length and leaves the cursor at i + 1; with       *)
(* i = len it appends the value, the length is len + 1 and the cursor is   *)
(* at len + 1, at EOF again.                                               *)
(***************************************************************************)
C32_WriteThroughF ==
    [][\A e \in DOMAIN exas :
          (Steps(e, "COPY") /\ Instr(e)[3] = RegisterId("F") /\ IsSome(exas[e].file)) =>
             LET i == Held(e).index
                 len == FileLen(Held(e))
                 v == Unwrap(EvalSource(exas[e], Instr(e)[2]))
             IN  /\ Outcome.result = "advanced"
                 /\ e \in DOMAIN exas'
                 /\ IsSome(exas'[e].file)
                 /\ HeldAfter(e).id = Held(e).id
                 /\ exas'[e].program.stack_index = exas[e].program.stack_index + 1
                 /\ i < len =>
                       /\ HeldAfter(e).contents = [Held(e).contents EXCEPT ![i + 1] = v]
                       /\ FileLen(HeldAfter(e)) = len
                       /\ HeldAfter(e).index = i + 1
                 /\ i = len =>
                       /\ HeldAfter(e).contents = Held(e).contents \o <<v>>
                       /\ FileLen(HeldAfter(e)) = len + 1
                       /\ HeldAfter(e).index = len + 1
                       /\ FileIsEof(HeldAfter(e))
      ]_vars

\* The agent made a file, appended 1 and 2 to it, went back by one and has just
\* written 3 over the 2: the file holds 1 and 3 and the cursor is at EOF.
C32_Witness ==
    /\ "XA" \in DOMAIN exas
    /\ exas["XA"].program = [name |-> "made", stack_index |-> 5]
    /\ IsSome(exas["XA"].file)
    /\ Held("XA").contents = <<Number(1), Number(3)>>
    /\ Held("XA").index = 2
    /\ Len(log) = 1 /\ log[1].op = "COPY" /\ log[1].dest = "F"
    /\ log[1].carried = <<Number(3)>>

\* The step of e ends with InvalidFRegisterAccess and changes no file: the files of
\* the hosts, the links and the generator are as they were, and a file the agent
\* held is, as it was, in the pending set of the host the dead agent leaves.
RefusedF(e) ==
    /\ Outcome.result = "died"
    /\ Outcome.arg = "InvalidFRegisterAccess"
    /\ e \notin DOMAIN exas'
    /\ links' = links
    /\ id_generator' = id_generator
    /\ \A g \in HostIds :
          /\ hosts'[g].files = hosts[g].files
          /\ hosts'[g].pending_files =
                IF g = exas[e].host /\ IsSome(exas[e].file)
                THEN MapInsert(hosts[g].pending_files, Held(e).id, Held(e))
                ELSE hosts[g].pending_files

\* COPY F r with a file and the cursor on a value: the destination holds the value,
\* the contents are as they were and the cursor has moved on by one.
ReadsF(e) ==
    (Steps(e, "COPY") /\ Instr(e)[2] = RegisterId("F") /\ IsSome(exas[e].file)
       /\ Held(e).index < FileLen(Held(e))) =>
          /\ Outcome.result = "advanced"
          /\ e \in DOMAIN exas'
          /\ IsSome(exas'[e].file)
          /\ Outcome.carried = <<Held(e).contents[Held(e).index + 1]>>
          /\ (IF Instr(e)[3].s = "X" THEN exas'[e].x_register ELSE exas'[e].t_register)
                = Some(Held(e).contents[Held(e).index + 1])
          /\ HeldAfter(e).contents = Held(e).contents
          /\ HeldAfter(e).index = Held(e).index + 1
          /\ HeldAfter(e).id = Held(e).id

\* A read of F at EOF, and a read or a write of F or a TEST EOF without a file, are
\* refused.
RefusesF(e) ==
    /\ (Steps(e, "COPY") /\ Instr(e)[2] = RegisterId("F") /\ IsSome(exas[e].file)
          /\ FileIsEof(Held(e))) => RefusedF(e)
    /\ (Steps(e, "COPY") /\ RegisterId("F") \in {Instr(e)[2], Instr(e)[3]}
          /\ ~IsSome(exas[e].file)) => RefusedF(e)
    /\ (Steps(e, "TEST") /\ Instr(e) = <<"TEST", "EOF">> /\ ~IsSome(exas[e].file))
          => RefusedF(e)

\* C33 as stated: also a write of F with the cursor at EOF is refused.
C33_Original ==
    [][\A e \in DOMAIN exas :
          /\ ReadsF(e)
          /\ RefusesF(e)
          /\ (Steps(e, "COPY") /\ Instr(e)[3] = RegisterId("F") /\ IsSome(exas[e].file)
                /\ FileIsEof(Held(e))) => RefusedF(e)
      ]_vars

(***************************************************************************)
(* C33.  A read through F.  With a held file and the cursor at i < len,    *)
(* COPY F r gives the destination the value at i, leaves the contents as   *)
(* they were and moves the cursor to i + 1.  A read of F with the cursor   *)
(* at EOF, and a read or a write of F or a TEST EOF without a held file,   *)
(* end with InvalidFRegisterAccess and change no file.  (A write of F at   *)
(* EOF is not refused: it appends.)                                        *)
(***************************************************************************)
C33_ReadThroughF ==
    [][\A e \in DOMAIN exas : ReadsF(e) /\ RefusesF(e)]_vars

\* The agent took the file 200 with two values, read both and died of the third
\* read, at EOF: the file is pending in host_1 with the cursor at 2.
C33_Witness ==
    /\ "XA" \notin DOMAIN exas
    /\ Len(log) = 1 /\ Is(1, "COPY", "died") /\ log[1].arg = "InvalidFRegisterAccess"
    /\ "200" \in DOMAIN hosts["host_1"].pending_files
    /\ hosts["host_1"].pending_files["200"].contents = <<Keyword("keyword1"), Number(666)>>
    /\ hosts["host_1"].pending_files["200"].index = 2

\* An agent without a file has died of COPY X F, of COPY F X or of TEST EOF.
C33_WithoutFile ==
    /\ "XA" \notin DOMAIN exas
    /\ Len(log) = 1 /\ log[1].arg = "InvalidFRegisterAccess"
    /\ hosts["host_1"].pending_files = EmptyMap
    /\ "200" \in DOMAIN hosts["host_1"].files

(***************************************************************************)
(* C34.  VOID F with the cursor at i < len removes the value at i and no   *)
(* other, keeps the order of the rest and leaves the cursor at i, which    *)
(* is now on the value that followed, or at EOF when the last value was    *)
(* removed.  With the cursor at EOF it changes nothing.                    *)
(***************************************************************************)
C34_VoidF ==
    [][\A e \in DOMAIN exas :
          (Steps(e, "VOID") /\ Instr(e)[2] = "F" /\ IsSome(exas[e].file)) =>
             LET i == Held(e).index
                 len == FileLen(Held(e))
             IN  /\ Outcome.result = "advanced"
                 /\ e \in DOMAIN exas'
                 /\ IsSome(exas'[e].file)
                 /\ HeldAfter(e).index = i
                 /\ HeldAfter(e).id = Held(e).id
                 /\ i < len =>
                       /\ FileLen(HeldAfter(e)) = len - 1
                       /\ \A k \in 1..(len - 1) :
                             HeldAfter(e).contents[k] =
                                Held(e).contents[IF k <= i THEN k ELSE k + 1]
                       /\ (i + 1 < len) =>
                             FileCurrent(HeldAfter(e)) = Some(Held(e).contents[i + 2])
                       /\ (i + 1 = len) => FileIsEof(HeldAfter(e))
                 /\ i = len => HeldAfter(e) = Held(e)
                 /\ exas'[e].x_register = exas[e].x_register
                 /\ exas'[e].t_register = exas[e].t_register
      ]_vars

\* test_execute_current_instruction_void_f, two steps on: of keyword1, 666 and
\* keyword2 the agent has removed the first, moved on by one and removed keyword2,
\* the last value, so that the cursor is at EOF.
C34_Witness ==
    /\ "XA" \in DOMAIN exas
    /\ exas["XA"].program = [name |-> "void", stack_index |-> 4]
    /\ IsSome(exas["XA"].file)
    /\ Held("XA").contents = <<Number(666)>>
    /\ Held("XA").index = 1
    /\ Len(log) = 1 /\ Is(1, "VOID", "advanced")

\* The same agent one step on: the VOID F at EOF has changed nothing.
C34_AtEof ==
    /\ "XA" \in DOMAIN exas
    /\ exas["XA"].program = [name |-> "void", stack_index |-> 5]
    /\ IsSome(exas["XA"].file)
    /\ Held("XA").contents = <<Number(666)>>
    /\ Held("XA").index = 1
    /\ Len(log) = 1 /\ Is(1, "VOID", "advanced")

RECURSIVE Drained(_)
\* The values successive calls of read_mut return, up to the first that returns no
\* value.
Drained(register) ==
    LET r == HardwareRegisterReadMut(register)
    IN  IF ~r.ok \/ ~IsSome(r.value) THEN <<>>
        ELSE <<Unwrap(r.value)>> \o Drained(r.register)

RECURSIVE Emptied(_)
\* The register after those calls.
Emptied(register) ==
    LET r == HardwareRegisterReadMut(register)
    IN  IF ~r.ok \/ ~IsSome(r.value) THEN r.register ELSE Emptied(r.register)

(***************************************************************************)
(* C35.  A hardware register is a queue, first in first out.  Successive   *)
(* read_mut calls on a ReadOnly register made of v1..vn return v1, v2, ..  *)
(* vn in that order and no value after that; read returns the value at    *)
(* the front and removes nothing; a value written to a WriteOnly register  *)
(* joins the back, so that the queue holds the values in the order of the  *)
(* writes.                                                                 *)
(***************************************************************************)
C35_Fifo ==
    /\ \A values \in InitialQueues :
          LET made == HardwareRegisterNewWithValues("X", "ReadOnly", values)
          IN  /\ made.ok
              /\ Drained(made.register) = values
              /\ HardwareRegisterReadMut(Emptied(made.register)).ok
              /\ HardwareRegisterReadMut(Emptied(made.register)).value = None
    /\ subject.hardware.mode = "ReadOnly" =>
          /\ Drained(subject.hardware) = subject.hardware.values
          /\ Emptied(subject.hardware).values = <<>>
    /\ (subject.op = "HardwareRegister::read_mut" /\ subject.ok) =>
          IF subject.before.hardware.values = <<>>
          THEN subject.value = None /\ subject.hardware = subject.before.hardware
          ELSE /\ subject.value = Some(Head(subject.before.hardware.values))
               /\ subject.hardware.values = Tail(subject.before.hardware.values)
    /\ (subject.op = "HardwareRegister::read" /\ subject.ok) =>
          /\ subject.hardware = subject.before.hardware
          /\ subject.value = IF subject.hardware.values = <<>> THEN None
                             ELSE Some(Head(subject.hardware.values))
    /\ (subject.op = "HardwareRegister::write" /\ subject.ok
          /\ subject.hardware.mode = "WriteOnly") =>
          subject.hardware.values =
             Append(subject.before.hardware.values, Unwrap(subject.arg))

\* The second read_mut of a ReadOnly register made of 666 and 333 has returned 333
\* and left the queue empty.
C35_Witness ==
    /\ subject.op = "HardwareRegister::read_mut"
    /\ subject.hardware.mode = "ReadOnly"
    /\ subject.before.hardware.values = <<Number(333)>>
    /\ subject.value = Some(Number(333))
    /\ subject.hardware.values = <<>>

\* The lines of a source that are instructions to execute: not empty, no comment, no
\* MARK (and no line that does not parse), as indices into the source.
Executable(lines) ==
    {i \in 1..Len(lines) : lines[i][1] \notin {"", "#", "MARK", "!"}}

\* The last line of a source that marks the label.
MarkLine(lines, label) ==
    CHOOSE i \in 1..Len(lines) :
        /\ lines[i] = <<"MARK", LabelId(label)>>
        /\ \A j \in (i + 1)..Len(lines) : lines[j] # <<"MARK", LabelId(label)>>

C36_AtEnd ==
    /\ subject.name = "forward"
    /\ subject.op = "jump_to"
    /\ subject.arg = Some(LabelId("END"))
    /\ Unwrap(subject.program).stack_index = 2
    /\ PeakCurrentInstruction(Unwrap(subject.program)) = None

RetryInit ==
    /\ \E limit_2 \in 0..MaxOccupancy,
          host_of \in [{"XA", "XB"} -> HostIds],
          program_of \in [{"XA", "XB"} -> {"link", "back", "idle"}] :
          LET sized == [LinkedHosts EXCEPT !["host_2"].occupancy_limit = limit_2]
              made == Populated(sized, host_of, program_of)
          IN  /\ host_of["XA"] = "host_1"
              /\ \A h \in HostIds : Occupancy(made.hosts[h]) <= made.hosts[h].occupancy_limit
              /\ Running(made.hosts, made.exas)
    /\ subject = None

RetryNext ==
    \/ StepOutOfInstructions
    \/ StepNoOp
    \/ StepLink
    \/ EndCycle

SpecRetry == RetryInit /\ [][RetryNext]_vars /\ WF_vars(RetryNext)

\* The Waiting variants of ExaState.
WaitingStates ==
    {"WaitingForFile", "WaitingForLinkToOpen", "WaitingForHostAvailabilityToDropFile",
     "WaitingForHostAvailabilityToReplicate", "WaitingForMRead", "WaitingForMWrite"}

\* The agent was blocked in its step of this cycle.
BlockedInCycle(e) ==
    e \in DOMAIN exas /\ e \in stepped /\ exas[e].state \in WaitingStates

\* The agent, still waiting, is due for its step of a cycle.
DueForRetry(e) ==
    phase = "run" /\ e \in DOMAIN exas /\ e \notin stepped
       /\ exas[e].state \in WaitingStates

(***************************************************************************)
(* C38.  A blocked step is retried, and passes when the resource is free.  *)
(* A blocked agent keeps its cursor on the instruction, nothing but its    *)
(* own step moves the cursor, and in every later cycle the agent executes  *)
(* that instruction again.  An agent that was blocked on LINK because      *)
(* another agent had gone through the link moves to the destination at     *)
(* its step of the next cycle: the end of the cycle released the link,     *)
(* and the step passes if the destination has space and no agent earlier   *)
(* in the cycle has taken the link.                                        *)
(***************************************************************************)
C38_Retry ==
    /\ [][\A e \in DOMAIN exas :
             /\ (Ready(e) /\ e \in stepped' /\ Outcome.result = "blocked") =>
                   /\ e \in DOMAIN exas'
                   /\ exas'[e].program = exas[e].program
                   /\ exas'[e].host = exas[e].host
                   /\ exas'[e].state \in WaitingStates
                   /\ Outcome.exa = e /\ Outcome.op = Instr(e)[1]
             /\ (e \in DOMAIN exas' /\ exas'[e].program # exas[e].program) =>
                   Ready(e) /\ e \in stepped'
             /\ (e \in DOMAIN exas' /\ exas[e].state \in WaitingStates
                   /\ exas'[e].state # exas[e].state) =>
                   Ready(e) /\ e \in stepped'
             /\ (Steps(e, "LINK") /\ exas[e].state = "WaitingForLinkToOpen"
                   /\ HasLink(hosts[exas[e].host], Operand(e))
                   /\ ~links[hosts[exas[e].host].links[Operand(e)]].occupied
                   /\ ~Full(hosts[Behind(exas[e].host, Operand(e))])) =>
                   /\ Outcome.result = "advanced"
                   /\ exas'[e].host = Behind(exas[e].host, Operand(e))
                   /\ HasOccupyingExaId(hosts'[exas'[e].host], e)
                   /\ ~HasOccupyingExaId(hosts'[exas[e].host], e)
                   /\ exas'[e].state = "Running"
                   /\ exas'[e].program.stack_index = exas[e].program.stack_index + 1
       ]_vars
    /\ [][(log # <<>> /\ log' = <<>>) =>
             /\ \A l \in LinkIds : ~links'[l].occupied
             /\ stepped' = {}
             /\ \A e \in DOMAIN exas :
                   exas[e].state \in WaitingStates => e \in DOMAIN exas' /\ exas'[e] = exas[e]
       ]_vars
    /\ \A e \in {InitialExaIds[i] : i \in 1..Len(InitialExaIds)} :
          /\ BlockedInCycle(e) ~> DueForRetry(e)
          /\ DueForRetry(e) ~> (e \notin DOMAIN exas \/ e \in stepped)

\* XA went through the link in an earlier cycle and XB, behind it in that cycle,
\* was blocked.  In this cycle XB is stepped first, finds the link released and
\* host_2 with room, and is in host_2, Running, with its cursor moved on.
C38_Witness ==
    /\ log = <<Entry("XB", "host_1", "LINK", "advanced", "800", "host_2")>>
    /\ DOMAIN exas = {"XA", "XB"}
    /\ "XA" \notin stepped
    /\ exas["XA"].host = "host_2" /\ exas["XA"].program.stack_index = 1
    /\ exas["XA"].program.name = "link"
    /\ exas["XB"].host = "host_2" /\ exas["XB"].program.stack_index = 1
    /\ exas["XB"].program.name = "link"
    /\ exas["XB"].state = "Running"
    /\ links["link"].occupied

\* The Waiting variant of an agent that is blocked on the instruction `line`.
WaitingOn(line) ==
    CASE line[1] = "GRAB" -> "WaitingForFile"
      [] line[1] = "LINK" -> "WaitingForLinkToOpen"
      [] line[1] = "DROP" -> "WaitingForHostAvailabilityToDropFile"
      [] line[1] = "REPL" -> "WaitingForHostAvailabilityToReplicate"
      [] line[1] = "COPY" /\ line[2] = RegisterId("M") -> "WaitingForMRead"
      [] line[1] = "COPY" /\ line[3] = RegisterId("M") -> "WaitingForMWrite"
      [] OTHER -> "Running"

\* The entries of the history of the cycle that moved or blocked the agent: those of
\* its own steps, and those of the steps of others that delivered to it, or took
\* from it, over M and moved it on.
Concerning(e) ==
    {i \in Positions :
        \/ log[i].exa = e
        \/ log[i].op = "COPY" /\ log[i].arg = "M" /\ log[i].dest = e}

C39_WaitsOnM ==
    \E e \in DOMAIN exas :
        /\ exas[e].state = "WaitingForMRead"
        /\ \E i \in Positions : log[i].exa = e /\ Is(i, "COPY", "blocked")

(***************************************************************************)
(* A host on its own: Host::new, then any sequence of insert_file,         *)
(* insert_pending_file, remove_file and uptake_pending_files.              *)
(***************************************************************************)
\* The files given to the host: 200 and 201 as File::new makes them, and a 200 that
\* holds a value.
GivenFiles ==
    {FileNew("200"), FileNew("201"), FileAppend(FileNew("200"), Number(666))}

\* The ids remove_file is called with.
AskedIds == {"200", "201", "999"}

\* The subject after a method has been applied to its host.
Called(op, arg, returned, host) ==
    [host |-> host, op |-> op, arg |-> arg, returned |-> returned, before |-> subject.host]

HostInit ==
    /\ NoWorld
    /\ \E limit \in 1..MaxOccupancy :
          subject = [host |-> HostNew("host_1", limit), op |-> "new", arg |-> "",
                     returned |-> None, before |-> HostNew("host_1", limit)]

CallInsertFile ==
    /\ HasAvailableSpace(subject.host)
    /\ \E file \in GivenFiles :
          subject' = Called("insert_file", file.id, None, InsertFile(subject.host, file))
    /\ UNCHANGED world

CallInsertPendingFile ==
    /\ \E file \in GivenFiles :
          LET inserted == InsertPendingFile(subject.host, file)
          IN  subject' = Called("insert_pending_file", file.id, inserted.file, inserted.host)
    /\ UNCHANGED world

CallRemoveFile ==
    /\ \E file_id \in AskedIds :
          LET removed == RemoveFile(subject.host, file_id)
          IN  subject' = Called("remove_file", file_id, removed.file, removed.host)
    /\ UNCHANGED world

CallUptakePendingFiles ==
    /\ subject' = Called("uptake_pending_files", "", None, UptakePendingFiles(subject.host))
    /\ UNCHANGED world

HostNext ==
    CallInsertFile \/ CallInsertPendingFile \/ CallRemoveFile \/ CallUptakePendingFiles

SpecHost == HostInit /\ [][HostNext]_vars

(***************************************************************************)
(* C40.  Host::remove_file loses no file.  It returns the file exactly     *)
(* when the id is in files and not in pending_files, and then the file     *)
(* has left files and nothing else has changed.  When it returns none,     *)
(* for an id the host does not have or one that is in pending_files,       *)
(* files and pending_files are what they were before the call.  This is    *)
(* stated for every host the four methods can produce, among them one in   *)
(* which the same id was given to insert_file and to insert_pending_file.  *)
(***************************************************************************)
C40_RemoveFileLosesNoFile ==
    subject.op = "remove_file" =>
        LET id == subject.arg
            before == subject.before
        IN  /\ IsSome(subject.returned) <=>
                  (id \in DOMAIN before.files /\ id \notin DOMAIN before.pending_files)
            /\ IsSome(subject.returned) =>
                  /\ subject.returned = Some(before.files[id])
                  /\ subject.host = [before EXCEPT !.files = MapRemove(@, id)]
            /\ ~IsSome(subject.returned) =>
                  /\ subject.host.files = before.files
                  /\ subject.host.pending_files = before.pending_files

\* The same without the hosts that have the id in both maps: for every other host
\* remove_file behaves as stated.
C40_RemoveFileOfOnePlace ==
    (subject.op = "remove_file"
       /\ ~(subject.arg \in DOMAIN subject.before.files
              /\ subject.arg \in DOMAIN subject.before.pending_files)) =>
        LET id == subject.arg
            before == subject.before
        IN  /\ IsSome(subject.returned) <=> id \in DOMAIN before.files
            /\ IsSome(subject.returned) =>
                  /\ subject.returned = Some(before.files[id])
                  /\ subject.host = [before EXCEPT !.files = MapRemove(@, id)]
            /\ ~IsSome(subject.returned) => subject.host = before

\* remove_file("200") of a host that had 200 in files and in pending_files returned
\* none, and the 200 of files is gone.
C40_FileLost ==
    /\ subject.op = "remove_file"
    /\ subject.arg = "200"
    /\ subject.returned = None
    /\ "200" \in DOMAIN subject.before.files
    /\ "200" \in DOMAIN subject.before.pending_files
    /\ "200" \notin DOMAIN subject.host.files

\* remove_file("200") of a host that had 200 in pending_files only returned none and
\* left the host as it was.
C40_PendingOnly ==
    /\ subject.op = "remove_file"
    /\ subject.arg = "200"
    /\ subject.returned = None
    /\ "200" \notin DOMAIN subject.before.files
    /\ "200" \in DOMAIN subject.before.pending_files
    /\ subject.host = subject.before

====
